---- MODULE Spec2Model ----
(***************************************************************************)
(* PoissonCalculator (src/models/poisson_calculator.py): one calculator    *)
(* instance, its configuration calls, calculate_strengths and the two      *)
(* analyses, over a small binary floating-point format that rounds every   *)
(* operation to nearest-even the way Python's float (IEEE-754 binary64)    *)
(* does; and the window of src/gui, which reads its input section into a  *)
(* dict and drives its one calculator from it.                             *)
(***************************************************************************)
EXTENDS Integers, Sequences, FiniteSets, TLC

(***************************************************************************)
(* The floating-point format.  binary64 has 53 significant bits, smallest  *)
(* positive value 2^-1074 and finite values below 2^1024; the model keeps  *)
(* the structure (normal and subnormal values, round to nearest even,      *)
(* overflow to infinity, underflow to zero) with small parameters.         *)
(***************************************************************************)
Precision == 6
MinExp == 20
MaxExp == 40

\* A format: p significant bits, least exponent emin (of the unit in the last
\* place), finite values below 2^emax.
F64 == [p |-> Precision, emin |-> 0 - MinExp, emax |-> MaxExp]

\* The format libm works in internally before it rounds its result to F64.
Wide == [p |-> Precision + 6, emin |-> 0 - 8 * MinExp, emax |-> 8 * MaxExp]

\* A value: k is "fin" (s * m * 2^e), "inf" (s * infinity), "nan", or "none"
\* (Python's None, the unset field).
Fin(s, m, e) == [k |-> "fin", s |-> s, m |-> m, e |-> e]
Zero == [k |-> "fin", s |-> 1, m |-> 0, e |-> 0]
Inf(s) == [k |-> "inf", s |-> s, m |-> 0, e |-> 0]
NaN == [k |-> "nan", s |-> 1, m |-> 0, e |-> 0]
None == [k |-> "none", s |-> 1, m |-> 0, e |-> 0]

IsFin(x) == x.k = "fin"
IsZero(x) == x.k = "fin" /\ x.m = 0
IsPos(x) == (x.k = "inf" /\ x.s = 1) \/ (x.k = "fin" /\ x.m > 0 /\ x.s = 1)
IsNeg(x) == (x.k = "inf" /\ x.s = -1) \/ (x.k = "fin" /\ x.m > 0 /\ x.s = -1)

\* The number of bits of n, 0 <= n < 2^31 (0 has none), by halving the range.
BitLen4(n) == IF n < 4 THEN (IF n < 2 THEN n ELSE 2) ELSE (IF n < 8 THEN 3 ELSE 4)
BitLen8(n) == IF n < 16 THEN BitLen4(n) ELSE 4 + BitLen4(n \div 16)
BitLen16(n) == IF n < 256 THEN BitLen8(n) ELSE 8 + BitLen8(n \div 256)
BitLen(n) == IF n < 65536 THEN BitLen16(n) ELSE 16 + BitLen16(n \div 65536)

\* n / 2^sh rounded to the nearest integer, ties to even (n >= 0, sh >= 1).
RoundHalfEven(n, sh) ==
    LET q == n \div 2^sh
        r == n % 2^sh
    IN IF 2 * r > 2^sh \/ (2 * r = 2^sh /\ q % 2 = 1) THEN q + 1 ELSE q

\* The value s * m * 2^e of format f, for a rounded mantissa m <= 2^p: a carry
\* out of the mantissa moves to the exponent, a value of 2^emax or more is
\* infinite.
Pack(f, s, m, e) ==
    IF m = 0 THEN Zero
    ELSE IF m = 2^f.p
         THEN (IF e + f.p + 1 > f.emax THEN Inf(s) ELSE Fin(s, 2^(f.p - 1), e + 1))
    ELSE IF m >= 2^(f.p - 1) /\ e + f.p > f.emax THEN Inf(s)
    ELSE Fin(s, m, e)

\* n (of bl bits) times 2^e with its last sh bits rounded away (sh <= 0: none
\* are, the mantissa is scaled up instead).
RoundAway(f, s, n, e, bl, sh) ==
    IF sh > bl THEN Zero
    ELSE IF sh <= 0
         THEN (IF bl + e > f.emax THEN Inf(s) ELSE Fin(s, n * 2^(0 - sh), e + sh))
    ELSE Pack(f, s, RoundHalfEven(n, sh), e + sh)

\* As Round, given the number of bits of n: p bits are kept, fewer where the
\* exponent would fall below emin (a subnormal).
RoundBits(f, s, n, e, bl) ==
    RoundAway(f, s, n, e, bl, IF e + (bl - f.p) < f.emin THEN f.emin - e ELSE bl - f.p)

\* s * n * 2^e rounded to format f: nearest, ties to even; below half the least
\* subnormal it is zero, at or above 2^emax it is infinite.
Round(f, s, n, e) == IF n = 0 THEN Zero ELSE RoundBits(f, s, n, e, BitLen(n))

\* v * 2^e rounded to format f, v an integer of either sign.
RoundSigned(f, v, e) ==
    Round(f, IF v >= 0 THEN 1 ELSE -1, IF v >= 0 THEN v ELSE 0 - v, e)

\* x with its mantissa multiplied by 2^d, the value kept.
ScaledUp(x, d) == IF d > 0 THEN Fin(x.s, x.m * 2^d, x.e - d) ELSE x

\* A finite nonzero value with its mantissa scaled up to exactly f.p bits (the
\* exponent may then lie below f.emin: an intermediate, not a stored value).
Normalized(f, x) == ScaledUp(x, f.p - BitLen(x.m))

Neg(x) ==
    IF x.k = "nan" \/ IsZero(x) THEN x ELSE [x EXCEPT !.s = 0 - x.s]

\* x * y in format f.
MulF(f, x, y) ==
    IF x.k = "nan" \/ y.k = "nan" THEN NaN
    ELSE IF x.k = "inf" \/ y.k = "inf"
         THEN IF IsZero(x) \/ IsZero(y) THEN NaN ELSE Inf(x.s * y.s)
    ELSE Round(f, x.s * y.s, x.m * y.m, x.e + y.e)

\* s * (num / den) * 2^e rounded to format f, for a quotient of more than p + 1
\* bits: the remainder only decides the rounding direction (a sticky bit).
RoundQuotient(f, s, num, den, e) ==
    Round(f, s, 2 * (num \div den) + (IF num % den = 0 THEN 0 ELSE 1), e - 1)

\* a / b for normalized a and b.
DivNormalized(f, a, b) ==
    RoundQuotient(f, a.s * b.s, a.m * 2^(f.p + 2), b.m, a.e - b.e - (f.p + 2))

\* x / y in format f, for y # 0 (Python raises ZeroDivisionError before it
\* divides by zero; the callers model that).
DivF(f, x, y) ==
    IF x.k = "nan" \/ y.k = "nan" THEN NaN
    ELSE IF x.k = "inf" THEN (IF y.k = "inf" THEN NaN ELSE Inf(x.s * y.s))
    ELSE IF y.k = "inf" \/ IsZero(x) THEN Zero
    ELSE DivNormalized(f, Normalized(f, x), Normalized(f, y))

\* hi + lo for normalized operands, hi.e >= lo.e.  An operand more than p + 2
\* binary places below the other only decides the rounding direction: it is
\* replaced by a sticky unit.
AddOrdered(f, hi, lo) ==
    RoundSigned(f,
        IF hi.e - lo.e > f.p + 2
        THEN hi.s * hi.m * 8 + lo.s
        ELSE hi.s * hi.m * 2^(hi.e - lo.e) + lo.s * lo.m,
        IF hi.e - lo.e > f.p + 2 THEN hi.e - 3 ELSE lo.e)

\* a + b for normalized a and b.
AddNormalized(f, a, b) ==
    AddOrdered(f, IF a.e >= b.e THEN a ELSE b, IF a.e >= b.e THEN b ELSE a)

\* x + y in format f.
AddF(f, x, y) ==
    IF x.k = "nan" \/ y.k = "nan" THEN NaN
    ELSE IF x.k = "inf"
         THEN (IF y.k = "inf" /\ y.s # x.s THEN NaN ELSE x)
    ELSE IF y.k = "inf" THEN y
    ELSE IF IsZero(x) THEN y
    ELSE IF IsZero(y) THEN x
    ELSE AddNormalized(f, Normalized(f, x), Normalized(f, y))

Mul(x, y) == MulF(F64, x, y)
Div(x, y) == DivF(F64, x, y)
Add(x, y) == AddF(F64, x, y)
Sub(x, y) == AddF(F64, x, Neg(y))

\* Comparisons: with subnormals a rounded difference is zero only when the
\* operands are equal, so its sign is the comparison.  NaN compares false.
Gt(x, y) == x.k # "nan" /\ y.k # "nan" /\ x # y /\ IsPos(Sub(x, y))
Ge(x, y) == x.k # "nan" /\ y.k # "nan" /\ (x = y \/ IsPos(Sub(x, y)))

\* int -> float
FromInt(n) == RoundSigned(F64, n, 0)

One == Fin(1, 2^(Precision - 1), 1 - Precision)

\* A value of the wide format rounded to a float.
Narrow(w) == IF w.k = "fin" THEN Round(F64, w.s, w.m, w.e) ELSE w

\* x raised to the integer k >= 0, as libm's pow: computed in the wide format
\* and rounded once.  x ** 0 is 1.0 for every x, NaN included.
RECURSIVE PowWide(_, _)
PowWide(x, k) == IF k = 0 THEN One ELSE MulF(Wide, PowWide(x, k - 1), x)

Pow(x, k) == Narrow(PowWide(x, k))

\* Python's float.__pow__ raises OverflowError when a finite base gives an
\* infinite result.
PowOverflows(x, k) == IsFin(x) /\ Pow(x, k).k = "inf"

\* exp(r) for 0 <= r < 1/2 by its Taylor polynomial in Horner form,
\* 1 + r/1 (1 + r/2 (1 + ... (1 + r/7))), in the wide format.
RECURSIVE ExpSeries(_, _)
ExpSeries(r, n) ==
    IF n > 7 THEN One
    ELSE AddF(Wide, One, MulF(Wide, DivF(Wide, r, Fin(1, n, 0)), ExpSeries(r, n + 1)))

RECURSIVE SquareN(_, _)
SquareN(w, j) == IF j = 0 THEN w ELSE SquareN(MulF(Wide, w, w), j - 1)

\* e^|x| with |x| halved j times to below 1/2: the series' value squared j times.
ExpHalved(x, j) == SquareN(ExpSeries(Fin(1, x.m, x.e - j), 1), j)

\* e^|x| for finite x # 0.
ExpAbs(x) ==
    ExpHalved(x, IF BitLen(x.m) + x.e + 1 > 0 THEN BitLen(x.m) + x.e + 1 ELSE 0)

\* e^x from w = e^|x| and the sign s of x.
ExpSigned(s, w) == Narrow(IF s = 1 THEN w ELSE DivF(Wide, One, w))

\* numpy.exp: overflow gives inf and underflow 0 (warnings, never an exception).
Exp(x) ==
    IF x.k = "nan" THEN NaN
    ELSE IF x.k = "inf" THEN (IF x.s = 1 THEN x ELSE Zero)
    ELSE IF IsZero(x) THEN One
    ELSE ExpSigned(x.s, ExpAbs(x))

\* n / 2^sh rounded to the nearest integer, ties to even (n, sh >= 0).
RoundShift(n, sh) ==
    IF sh = 0 THEN n ELSE IF sh > BitLen(n) + 1 THEN 0 ELSE RoundHalfEven(n, sh)

\* format(x, ".2f"): the decimal string with two digits after the point nearest
\* to the exact value of x (ties to even), as the number of hundredths it shows;
\* "inf" and "nan" for the non-finite values.
Format2f(x) ==
    IF x.k = "nan" THEN [k |-> "nan", s |-> 1, v |-> 0]
    ELSE IF x.k = "inf" THEN [k |-> "inf", s |-> x.s, v |-> 0]
    ELSE [k |-> "dec", s |-> x.s,
          v |-> IF x.e >= 0 THEN x.m * 100 * 2^x.e ELSE RoundShift(x.m * 100, 0 - x.e)]

\* format(x, ".2%"): x * 100 (a float multiplication) formatted .2f, then "%".
Format2pct(x) == Format2f(Mul(x, FromInt(100)))

\* |n| / |d| with sign s, given the number k of binary places the quotient is
\* computed to.
TrueDivPlaces(s, n, d, k) == RoundQuotient(F64, s, n * 2^k, d, 0 - k)

\* int / int (true division): the float nearest to the exact quotient, d # 0.
TrueDiv(n, d) ==
    TrueDivPlaces(IF (n >= 0) = (d >= 0) THEN 1 ELSE -1,
                  IF n >= 0 THEN n ELSE 0 - n,
                  IF d >= 0 THEN d ELSE 0 - d,
                  Precision + 2 + BitLen(IF d >= 0 THEN d ELSE 0 - d))

\* float("n.dd"): the float nearest to the decimal n / 100.
Decimal(hundredths) == TrueDiv(hundredths, 100)

(***************************************************************************)
(* The calculator.  self is the instance: its fields carry the names of    *)
(* the source.  Every method is an operator from the instance (and the     *)
(* arguments) to [self, raised, returned]: the instance as the call leaves *)
(* it, the exception it raised ("" when it returned) and what it returned. *)
(***************************************************************************)
MaxGoals == 8
DefaultMargin == 3

NoError == ""
ZeroDivisionError == "ZeroDivisionError: division by zero"
OverflowError == "OverflowError: (34, 'Numerical result out of range')"
StrengthsErrorDetailed == "ValueError: Team and detailed league averages must be set before calculating strengths"
StrengthsErrorSimple == "ValueError: Team averages must be set before calculating strengths"
ExpectancyError == "ValueError: Strengths must be calculated before goal expectancy"
SummaryError == "ValueError: Strengths must be calculated before getting summary info"
MarketError == "ValueError: Strengths must be calculated before generating market analysis"

Returns(self, value) == [self |-> self, raised |-> NoError, returned |-> value]
Raises(self, error) == [self |-> self, raised |-> error, returned |-> None]

\* bool(x) for a field: None and 0.0 are false, everything else (NaN too) true.
Truthy(x) == x.k # "none" /\ ~IsZero(x)

\* all([...]) over a sequence of fields.
All(xs) == \A i \in 1..Len(xs) : Truthy(xs[i])

__init__ ==
    [home_avg_goals_for |-> None,
     home_avg_goals_against |-> None,
     away_avg_goals_for |-> None,
     away_avg_goals_against |-> None,
     league_avg_goals |-> None,
     using_detailed_averages |-> FALSE,
     league_home_goals_for |-> None,
     league_home_goals_against |-> None,
     league_away_goals_for |-> None,
     league_away_goals_against |-> None,
     home_attack_strength |-> None,
     home_defense_strength |-> None,
     away_attack_strength |-> None,
     away_defense_strength |-> None]

\* Fault: the call stores the averages and the league average and leaves the
\* mode flag as it finds it.
set_team_averages_KeepingMode(self, home_goals_for, home_goals_against, away_goals_for, away_goals_against, league_avg) ==
    Returns([self EXCEPT !.home_avg_goals_for = home_goals_for,
                         !.home_avg_goals_against = home_goals_against,
                         !.away_avg_goals_for = away_goals_for,
                         !.away_avg_goals_against = away_goals_against,
                         !.league_avg_goals = league_avg], None)

set_team_averages(self, home_goals_for, home_goals_against, away_goals_for, away_goals_against, league_avg) ==
    Returns([self EXCEPT !.home_avg_goals_for = home_goals_for,
                         !.home_avg_goals_against = home_goals_against,
                         !.away_avg_goals_for = away_goals_for,
                         !.away_avg_goals_against = away_goals_against,
                         !.league_avg_goals = league_avg,
                         !.using_detailed_averages = FALSE], None)

\* Fault: the conceding baselines copied from the scoring baseline of the same side.
set_team_averages_detailed_SameSide(self, home_goals_for, home_goals_against, away_goals_for, away_goals_against, league_home_for, league_away_for) ==
    Returns([self EXCEPT !.home_avg_goals_for = home_goals_for,
                         !.home_avg_goals_against = home_goals_against,
                         !.away_avg_goals_for = away_goals_for,
                         !.away_avg_goals_against = away_goals_against,
                         !.league_home_goals_for = league_home_for,
                         !.league_away_goals_for = league_away_for,
                         !.league_home_goals_against = league_home_for,
                         !.league_away_goals_against = league_away_for,
                         !.using_detailed_averages = TRUE], None)

set_team_averages_detailed(self, home_goals_for, home_goals_against, away_goals_for, away_goals_against, league_home_for, league_away_for) ==
    Returns([self EXCEPT !.home_avg_goals_for = home_goals_for,
                         !.home_avg_goals_against = home_goals_against,
                         !.away_avg_goals_for = away_goals_for,
                         !.away_avg_goals_against = away_goals_against,
                         !.league_home_goals_for = league_home_for,
                         !.league_away_goals_for = league_away_for,
                         !.league_home_goals_against = league_away_for,
                         !.league_away_goals_against = league_home_for,
                         !.using_detailed_averages = TRUE], None)

\* Fault: a zero games count gives averages of zero instead of an exception.
set_team_from_totals_detailed_Defaulted(self, home_games, home_goals_scored, home_goals_conceded, away_games, away_goals_scored, away_goals_conceded, league_home_for, league_away_for) ==
    Returns([self EXCEPT
        !.home_avg_goals_for = IF home_games = 0 THEN Zero ELSE TrueDiv(home_goals_scored, home_games),
        !.home_avg_goals_against = IF home_games = 0 THEN Zero ELSE TrueDiv(home_goals_conceded, home_games),
        !.away_avg_goals_for = IF away_games = 0 THEN Zero ELSE TrueDiv(away_goals_scored, away_games),
        !.away_avg_goals_against = IF away_games = 0 THEN Zero ELSE TrueDiv(away_goals_conceded, away_games),
        !.league_home_goals_for = league_home_for,
        !.league_away_goals_for = league_away_for,
        !.league_home_goals_against = league_away_for,
        !.league_away_goals_against = league_home_for,
        !.using_detailed_averages = TRUE], None)

\* The four averages are assigned one statement at a time; a zero games count
\* raises ZeroDivisionError at its first division, after the statements before it.
set_team_from_totals_detailed(self, home_games, home_goals_scored, home_goals_conceded, away_games, away_goals_scored, away_goals_conceded, league_home_for, league_away_for) ==
    IF home_games = 0 THEN Raises(self, ZeroDivisionError)
    ELSE LET s2 == [self EXCEPT !.home_avg_goals_for = TrueDiv(home_goals_scored, home_games),
                                !.home_avg_goals_against = TrueDiv(home_goals_conceded, home_games)]
         IN IF away_games = 0 THEN Raises(s2, ZeroDivisionError)
            ELSE Returns([s2 EXCEPT !.away_avg_goals_for = TrueDiv(away_goals_scored, away_games),
                                    !.away_avg_goals_against = TrueDiv(away_goals_conceded, away_games),
                                    !.league_home_goals_for = league_home_for,
                                    !.league_away_goals_for = league_away_for,
                                    !.league_home_goals_against = league_away_for,
                                    !.league_away_goals_against = league_home_for,
                                    !.using_detailed_averages = TRUE], None)

\* Fault: floor division (//) where the code divides truly (/).
set_team_from_totals_FloorDiv(self, home_games, home_goals_scored, home_goals_conceded, away_games, away_goals_scored, away_goals_conceded, league_avg) ==
    IF home_games = 0 \/ away_games = 0 THEN Raises(self, ZeroDivisionError)
    ELSE Returns([self EXCEPT !.home_avg_goals_for = FromInt(home_goals_scored \div home_games),
                              !.home_avg_goals_against = FromInt(home_goals_conceded \div home_games),
                              !.away_avg_goals_for = FromInt(away_goals_scored \div away_games),
                              !.away_avg_goals_against = FromInt(away_goals_conceded \div away_games),
                              !.league_avg_goals = league_avg,
                              !.using_detailed_averages = FALSE], None)

set_team_from_totals(self, home_games, home_goals_scored, home_goals_conceded, away_games, away_goals_scored, away_goals_conceded, league_avg) ==
    IF home_games = 0 THEN Raises(self, ZeroDivisionError)
    ELSE LET s2 == [self EXCEPT !.home_avg_goals_for = TrueDiv(home_goals_scored, home_games),
                                !.home_avg_goals_against = TrueDiv(home_goals_conceded, home_games)]
         IN IF away_games = 0 THEN Raises(s2, ZeroDivisionError)
            ELSE Returns([s2 EXCEPT !.away_avg_goals_for = TrueDiv(away_goals_scored, away_games),
                                    !.away_avg_goals_against = TrueDiv(away_goals_conceded, away_games),
                                    !.league_avg_goals = league_avg,
                                    !.using_detailed_averages = FALSE], None)

\* Fault: inputs that are missing give strengths of zero instead of an exception.
calculate_strengths_Defaulted(self) ==
    IF ~All(<<self.home_avg_goals_for, self.home_avg_goals_against,
              self.away_avg_goals_for, self.away_avg_goals_against,
              self.league_avg_goals>>)
    THEN Returns([self EXCEPT !.home_attack_strength = Zero,
                              !.home_defense_strength = Zero,
                              !.away_attack_strength = Zero,
                              !.away_defense_strength = Zero], None)
    ELSE Returns([self EXCEPT
            !.home_attack_strength = Div(self.home_avg_goals_for, self.league_avg_goals),
            !.home_defense_strength = Div(self.home_avg_goals_against, self.league_avg_goals),
            !.away_attack_strength = Div(self.away_avg_goals_for, self.league_avg_goals),
            !.away_defense_strength = Div(self.away_avg_goals_against, self.league_avg_goals)], None)

\* Fault: the inputs are tested for None only, so that a zero average passes
\* (and a zero baseline raises ZeroDivisionError at the first division).
calculate_strengths_NoneOnly(self) ==
    IF self.using_detailed_averages
    THEN IF None \in {self.home_avg_goals_for, self.home_avg_goals_against,
                      self.away_avg_goals_for, self.away_avg_goals_against,
                      self.league_home_goals_for, self.league_home_goals_against,
                      self.league_away_goals_for, self.league_away_goals_against}
         THEN Raises(self, StrengthsErrorDetailed)
         ELSE IF IsZero(self.league_home_goals_for) \/ IsZero(self.league_away_goals_for)
         THEN Raises(self, ZeroDivisionError)
         ELSE Returns([self EXCEPT
                 !.home_attack_strength = Div(self.home_avg_goals_for, self.league_home_goals_for),
                 !.home_defense_strength = Div(self.home_avg_goals_against, self.league_away_goals_for),
                 !.away_attack_strength = Div(self.away_avg_goals_for, self.league_away_goals_for),
                 !.away_defense_strength = Div(self.away_avg_goals_against, self.league_home_goals_for)], None)
    ELSE IF None \in {self.home_avg_goals_for, self.home_avg_goals_against,
                      self.away_avg_goals_for, self.away_avg_goals_against,
                      self.league_avg_goals}
         THEN Raises(self, StrengthsErrorSimple)
         ELSE IF IsZero(self.league_avg_goals)
         THEN Raises(self, ZeroDivisionError)
         ELSE Returns([self EXCEPT
                 !.home_attack_strength = Div(self.home_avg_goals_for, self.league_avg_goals),
                 !.home_defense_strength = Div(self.home_avg_goals_against, self.league_avg_goals),
                 !.away_attack_strength = Div(self.away_avg_goals_for, self.league_avg_goals),
                 !.away_defense_strength = Div(self.away_avg_goals_against, self.league_avg_goals)], None)

\* Fault: in detailed mode each defense is divided by the baseline of the team's
\* own side instead of the opponents'.
calculate_strengths_OwnSide(self) ==
    IF self.using_detailed_averages
    THEN IF ~All(<<self.home_avg_goals_for, self.home_avg_goals_against,
                   self.away_avg_goals_for, self.away_avg_goals_against,
                   self.league_home_goals_for, self.league_home_goals_against,
                   self.league_away_goals_for, self.league_away_goals_against>>)
         THEN Raises(self, StrengthsErrorDetailed)
         ELSE Returns([self EXCEPT
                 !.home_attack_strength = Div(self.home_avg_goals_for, self.league_home_goals_for),
                 !.home_defense_strength = Div(self.home_avg_goals_against, self.league_home_goals_for),
                 !.away_attack_strength = Div(self.away_avg_goals_for, self.league_away_goals_for),
                 !.away_defense_strength = Div(self.away_avg_goals_against, self.league_away_goals_for)], None)
    ELSE IF ~All(<<self.home_avg_goals_for, self.home_avg_goals_against,
                   self.away_avg_goals_for, self.away_avg_goals_against,
                   self.league_avg_goals>>)
         THEN Raises(self, StrengthsErrorSimple)
         ELSE Returns([self EXCEPT
                 !.home_attack_strength = Div(self.home_avg_goals_for, self.league_avg_goals),
                 !.home_defense_strength = Div(self.home_avg_goals_against, self.league_avg_goals),
                 !.away_attack_strength = Div(self.away_avg_goals_for, self.league_avg_goals),
                 !.away_defense_strength = Div(self.away_avg_goals_against, self.league_avg_goals)], None)

\* Fault: a call that finds an input missing clears the home attack strength
\* before it raises.
calculate_strengths_Clearing(self) ==
    IF self.using_detailed_averages
    THEN IF ~All(<<self.home_avg_goals_for, self.home_avg_goals_against,
                   self.away_avg_goals_for, self.away_avg_goals_against,
                   self.league_home_goals_for, self.league_home_goals_against,
                   self.league_away_goals_for, self.league_away_goals_against>>)
         THEN Raises([self EXCEPT !.home_attack_strength = None], StrengthsErrorDetailed)
         ELSE Returns([self EXCEPT
                 !.home_attack_strength = Div(self.home_avg_goals_for, self.league_home_goals_for),
                 !.home_defense_strength = Div(self.home_avg_goals_against, self.league_away_goals_for),
                 !.away_attack_strength = Div(self.away_avg_goals_for, self.league_away_goals_for),
                 !.away_defense_strength = Div(self.away_avg_goals_against, self.league_home_goals_for)], None)
    ELSE IF ~All(<<self.home_avg_goals_for, self.home_avg_goals_against,
                   self.away_avg_goals_for, self.away_avg_goals_against,
                   self.league_avg_goals>>)
         THEN Raises([self EXCEPT !.home_attack_strength = None], StrengthsErrorSimple)
         ELSE Returns([self EXCEPT
                 !.home_attack_strength = Div(self.home_avg_goals_for, self.league_avg_goals),
                 !.home_defense_strength = Div(self.home_avg_goals_against, self.league_avg_goals),
                 !.away_attack_strength = Div(self.away_avg_goals_for, self.league_avg_goals),
                 !.away_defense_strength = Div(self.away_avg_goals_against, self.league_avg_goals)], None)

calculate_strengths(self) ==
    IF self.using_detailed_averages
    THEN IF ~All(<<self.home_avg_goals_for, self.home_avg_goals_against,
                   self.away_avg_goals_for, self.away_avg_goals_against,
                   self.league_home_goals_for, self.league_home_goals_against,
                   self.league_away_goals_for, self.league_away_goals_against>>)
         THEN Raises(self, StrengthsErrorDetailed)
         ELSE Returns([self EXCEPT
                 !.home_attack_strength = Div(self.home_avg_goals_for, self.league_home_goals_for),
                 !.home_defense_strength = Div(self.home_avg_goals_against, self.league_away_goals_for),
                 !.away_attack_strength = Div(self.away_avg_goals_for, self.league_away_goals_for),
                 !.away_defense_strength = Div(self.away_avg_goals_against, self.league_home_goals_for)], None)
    ELSE IF ~All(<<self.home_avg_goals_for, self.home_avg_goals_against,
                   self.away_avg_goals_for, self.away_avg_goals_against,
                   self.league_avg_goals>>)
         THEN Raises(self, StrengthsErrorSimple)
         ELSE Returns([self EXCEPT
                 !.home_attack_strength = Div(self.home_avg_goals_for, self.league_avg_goals),
                 !.home_defense_strength = Div(self.home_avg_goals_against, self.league_avg_goals),
                 !.away_attack_strength = Div(self.away_avg_goals_for, self.league_avg_goals),
                 !.away_defense_strength = Div(self.away_avg_goals_against, self.league_avg_goals)], None)

\* Returns the pair <<home_goal_expectancy, away_goal_expectancy>>.
_calculate_goal_expectancy(self) ==
    IF ~All(<<self.home_attack_strength, self.home_defense_strength,
              self.away_attack_strength, self.away_defense_strength>>)
    THEN Raises(self, ExpectancyError)
    ELSE IF self.using_detailed_averages
    THEN Returns(self, <<Mul(Mul(self.home_attack_strength, self.away_defense_strength), self.league_home_goals_for),
                         Mul(Mul(self.away_attack_strength, self.home_defense_strength), self.league_away_goals_for)>>)
    ELSE Returns(self, <<Mul(Mul(self.home_attack_strength, self.away_defense_strength), self.league_avg_goals),
                         Mul(Mul(self.away_attack_strength, self.home_defense_strength), self.league_avg_goals)>>)

RECURSIVE Factorial(_)
Factorial(k) == IF k = 0 THEN 1 ELSE k * Factorial(k - 1)

\* Fault: the division by k! left out.
PmfTerm_Unscaled(k, lam, exp_neg_lam) == Mul(Pow(lam, k), exp_neg_lam)

\* (lam ** k) * np.exp(-lam) / math.factorial(k), given the value of np.exp(-lam)
PmfTerm(k, lam, exp_neg_lam) == Div(Mul(Pow(lam, k), exp_neg_lam), FromInt(Factorial(k)))

_poisson_pmf(k, lam) == PmfTerm(k, lam, Exp(Neg(lam)))

\* lam ** k raises OverflowError for some k the matrix asks for.
PmfRaises(lam, max_goals) == \E k \in 0..max_goals : PowOverflows(lam, k)

\* The probabilities of 0..max_goals goals at expectancy lam, as a sequence:
\* position k + 1 holds _poisson_pmf(k, lam) (np.exp(-lam), the same in each,
\* is evaluated once).
RECURSIVE PmfTerms(_, _, _)
PmfTerms(lam, exp_neg_lam, k) ==
    IF k < 0 THEN <<>>
    ELSE Append(PmfTerms(lam, exp_neg_lam, k - 1), PmfTerm(k, lam, exp_neg_lam))

PmfRow(lam, max_goals) ==
    PmfTerms(lam, Exp(Neg(lam)), max_goals)

\* prob_matrix[home_goals][away_goals] = home_prob * away_prob
_generate_scoreline_probabilities(home_expectancy, away_expectancy, max_goals) ==
    LET home_probs == PmfRow(home_expectancy, max_goals)
        away_probs == PmfRow(away_expectancy, max_goals)
    IN [home_goals \in 0..max_goals |->
           [away_goals \in 0..max_goals |->
               Mul(home_probs[home_goals + 1], away_probs[away_goals + 1])]]

\* Fault: the thresholds out of order, [0.5, 2.5, 1.5, 3.5].
Thresholds_Unordered == <<Decimal(50), Decimal(250), Decimal(150), Decimal(350)>>

\* thresholds = [0.5, 1.5, 2.5, 3.5]
Thresholds == <<Decimal(50), Decimal(150), Decimal(250), Decimal(350)>>

\* f"Under {threshold}"
MarketLabel(threshold) ==
    CASE threshold = Decimal(50) -> "Under 0.5"
      [] threshold = Decimal(150) -> "Under 1.5"
      [] threshold = Decimal(250) -> "Under 2.5"
      [] threshold = Decimal(350) -> "Under 3.5"
      [] OTHER -> "Under ?"

\* The cells <<home_goals, away_goals>> in the order the two nested loops visit
\* them: row by row.
LoopOrder(prob_matrix) ==
    LET height == Cardinality(DOMAIN prob_matrix)
        width == Cardinality(DOMAIN prob_matrix[0])
    IN [idx \in 1..(height * width) |-> <<(idx - 1) \div width, (idx - 1) % width>>]

\* Fault: the comparison reversed, total_goals >= threshold.
CountsUnder_Reversed(cell, threshold) == Ge(FromInt(cell[1] + cell[2]), threshold)

\* Fault: the threshold rounded up to the next integer, total_goals <= threshold + 0.5.
CountsUnder_RoundedUp(cell, threshold) ==
    Ge(Add(threshold, Decimal(50)), FromInt(cell[1] + cell[2]))

\* total_goals <= threshold
CountsUnder(cell, threshold) == Ge(threshold, FromInt(cell[1] + cell[2]))

\* under_prob += prob over the cells from position n on, in order; under_prob
\* is the sum so far (a sum that is NaN stays NaN).
RECURSIVE Accumulate(_, _, _, _)
Accumulate(prob_matrix, cells, n, under_prob) ==
    IF n > Len(cells) \/ under_prob.k = "nan" THEN under_prob
    ELSE Accumulate(prob_matrix, cells, n + 1,
                    Add(under_prob, prob_matrix[cells[n][1]][cells[n][2]]))

\* The loops of one threshold: the cells that pass the test, added in loop order.
UnderProbability(prob_matrix, threshold) ==
    LET cells == SelectSeq(LoopOrder(prob_matrix), LAMBDA cell : CountsUnder(cell, threshold))
    IN Accumulate(prob_matrix, cells, 1, Zero)

\* Fault: the operands of the complement exchanged, under_prob - 1.
OverProbability_Exchanged(under_prob) == Sub(under_prob, One)

\* OVER probability is the complement
OverProbability(under_prob) == Sub(One, under_prob)

\* Fault: a probability of zero gives odds of zero.
FairOdds_ZeroSentinel(prob) == IF Gt(prob, Zero) THEN Div(One, prob) ELSE Zero

\* Fault: the guard tests the probability as displayed, so that one shown as
\* 0.00% gives infinite odds.
FairOdds_AsDisplayed(prob) ==
    IF Gt(prob, Zero) /\ Format2pct(prob).v > 0 THEN Div(One, prob) ELSE Inf(1)

\* 1 / prob if prob > 0 else float('inf')
FairOdds(prob) == IF Gt(prob, Zero) THEN Div(One, prob) ELSE Inf(1)

\* Fault: the over probability summed on its own, from the cells of the grid
\* that the under sum leaves out.
MarketEntry_SummedOver(prob_matrix, threshold) ==
    LET under_prob == UnderProbability(prob_matrix, threshold)
        over_prob == Accumulate(prob_matrix,
                                SelectSeq(LoopOrder(prob_matrix),
                                          LAMBDA cell : ~CountsUnder(cell, threshold)),
                                1, Zero)
    IN [market |-> MarketLabel(threshold),
        under_probability |-> under_prob,
        over_probability |-> over_prob,
        under_odds |-> FairOdds(under_prob),
        over_odds |-> FairOdds(over_prob)]

\* One entry of results, for one threshold.
MarketEntry(prob_matrix, threshold) ==
    LET under_prob == UnderProbability(prob_matrix, threshold)
        over_prob == OverProbability(under_prob)
    IN [market |-> MarketLabel(threshold),
        under_probability |-> under_prob,
        over_probability |-> over_prob,
        under_odds |-> FairOdds(under_prob),
        over_odds |-> FairOdds(over_prob)]

\* The entries of the first n thresholds, in order.
RECURSIVE MarketEntries(_, _)
MarketEntries(prob_matrix, n) ==
    IF n = 0 THEN <<>>
    ELSE Append(MarketEntries(prob_matrix, n - 1), MarketEntry(prob_matrix, Thresholds[n]))

\* results: the dict in insertion order, as a sequence.
_calculate_over_under_probabilities(prob_matrix) == MarketEntries(prob_matrix, Len(Thresholds))

\* Fault: the margin taken off the odds, odds * (1 - margin_percent / 100).
_apply_margin_Discount(odds, margin_percent) ==
    Mul(odds, Sub(One, TrueDiv(margin_percent, 100)))

\* odds * (1 + margin_percent / 100), margin_percent an int
_apply_margin(odds, margin_percent) ==
    LET margin_multiplier == Add(One, TrueDiv(margin_percent, 100))
    IN Mul(odds, margin_multiplier)

get_summary_info(self) ==
    IF ~All(<<self.home_attack_strength, self.away_attack_strength>>)
    THEN Raises(self, SummaryError)
    ELSE LET exp == _calculate_goal_expectancy(self)
             home_expectancy == exp.returned[1]
             away_expectancy == exp.returned[2]
         IN IF exp.raised # NoError THEN exp
            ELSE Returns(self,
                   [home_expected_goals |-> Format2f(home_expectancy),
                    away_expected_goals |-> Format2f(away_expectancy),
                    total_expected_goals |-> Format2f(Add(home_expectancy, away_expectancy)),
                    home_attack_strength |-> Format2f(self.home_attack_strength),
                    home_defense_strength |-> Format2f(self.home_defense_strength),
                    away_attack_strength |-> Format2f(self.away_attack_strength),
                    away_defense_strength |-> Format2f(self.away_defense_strength)])

\* One row of the results table.
MarketRow(data, margin_percent) ==
    LET under_odds_with_margin == _apply_margin(data.under_odds, margin_percent)
        over_odds_with_margin == _apply_margin(data.over_odds, margin_percent)
    IN [Market |-> data.market,
        Probability |-> Format2pct(data.under_probability),
        FairOddsText |-> Format2f(data.under_odds),
        OddsWithMargin |-> Format2f(under_odds_with_margin),
        OppositeProbability |-> Format2pct(data.over_probability),
        OppositeOddsWithMargin |-> Format2f(over_odds_with_margin)]

\* results_data: the rows of the first n entries, in order.
RECURSIVE MarketRows(_, _, _)
MarketRows(over_under_results, margin_percent, n) ==
    IF n = 0 THEN <<>>
    ELSE Append(MarketRows(over_under_results, margin_percent, n - 1),
                MarketRow(over_under_results[n], margin_percent))

\* The locals prob_matrix and over_under_results of generate_market_analysis,
\* <<>> each when the call raises before it assigns them.
MarketLocals(self) ==
    LET exp == _calculate_goal_expectancy(self) IN
    IF ~All(<<self.home_attack_strength, self.away_attack_strength>>) \/ exp.raised # NoError
       \/ PmfRaises(exp.returned[1], MaxGoals) \/ PmfRaises(exp.returned[2], MaxGoals)
    THEN [prob_matrix |-> <<>>, over_under_results |-> <<>>]
    ELSE LET prob_matrix == _generate_scoreline_probabilities(exp.returned[1], exp.returned[2], MaxGoals)
         IN [prob_matrix |-> prob_matrix,
             over_under_results |-> _calculate_over_under_probabilities(prob_matrix)]

\* Fault: no check of the strengths; without them the table is empty.
MarketAnalysis_Unguarded(self, over_under_results, margin_percent) ==
    Returns(self, MarketRows(over_under_results, margin_percent, Len(over_under_results)))

\* Fault: the analysis consumes the strengths, which are unset when it returns.
MarketAnalysis_Consuming(self, over_under_results, margin_percent) ==
    IF ~All(<<self.home_attack_strength, self.away_attack_strength>>)
    THEN Raises(self, MarketError)
    ELSE LET exp == _calculate_goal_expectancy(self)
         IN IF exp.raised # NoError THEN exp
            ELSE IF PmfRaises(exp.returned[1], MaxGoals) \/ PmfRaises(exp.returned[2], MaxGoals)
            THEN Raises(self, OverflowError)
            ELSE Returns([self EXCEPT !.home_attack_strength = None,
                                      !.away_attack_strength = None],
                         MarketRows(over_under_results, margin_percent,
                                    Len(over_under_results)))

\* generate_market_analysis, given the value of its local over_under_results.
MarketAnalysis(self, over_under_results, margin_percent) ==
    IF ~All(<<self.home_attack_strength, self.away_attack_strength>>)
    THEN Raises(self, MarketError)
    ELSE LET exp == _calculate_goal_expectancy(self)
         IN IF exp.raised # NoError THEN exp
            ELSE IF PmfRaises(exp.returned[1], MaxGoals) \/ PmfRaises(exp.returned[2], MaxGoals)
            THEN Raises(self, OverflowError)
            ELSE Returns(self, MarketRows(over_under_results, margin_percent,
                                          Len(over_under_results)))

generate_market_analysis(self, margin_percent) ==
    MarketAnalysis(self, MarketLocals(self).over_under_results, margin_percent)

\* The margin_percent of a call with the arguments a: the default when none is given.
MarginPercent(a) == IF a = <<>> THEN DefaultMargin ELSE a[1]

\* The console's get_team_data when the user enters totals: the two averages, or
\* ZeroDivisionError at the first division when games_played is 0.
get_team_data(self, games_played, total_goals_scored, total_goals_conceded) ==
    IF games_played = 0 THEN Raises(self, ZeroDivisionError)
    ELSE Returns(self, <<TrueDiv(total_goals_scored, games_played),
                         TrueDiv(total_goals_conceded, games_played)>>)

(***************************************************************************)
(* The window (src/gui): the input section's check boxes and line edits,   *)
(* get_input_data, which reads them into a dict, and                       *)
(* MainWindow.calculate_probabilities, which configures the window's one   *)
(* calculator from the dict and shows the results or a message box.  The   *)
(* text of a line edit is a sequence of characters; a dict is a function   *)
(* from its keys.                                                          *)
(***************************************************************************)
DigitChars == <<"0", "1", "2", "3", "4", "5", "6", "7", "8", "9">>
IsDigit(c) == \E d \in 1..10 : DigitChars[d] = c
DigitValue(c) == (CHOOSE d \in 1..10 : DigitChars[d] = c) - 1

\* The number a sequence of digits writes, after the digits read so far.
RECURSIVE DigitsValue(_, _)
DigitsValue(digits, acc) ==
    IF digits = <<>> THEN acc
    ELSE DigitsValue(Tail(digits), 10 * acc + DigitValue(Head(digits)))

\* text.strip()
RECURSIVE strip(_)
strip(text) ==
    IF text # <<>> /\ Head(text) = " " THEN strip(Tail(text))
    ELSE IF text # <<>> /\ text[Len(text)] = " " THEN strip(SubSeq(text, 1, Len(text) - 1))
    ELSE text

\* text.replace(',', '.')
RECURSIVE replace_comma(_)
replace_comma(text) ==
    IF text = <<>> THEN <<>>
    ELSE <<IF Head(text) = "," THEN "." ELSE Head(text)>> \o replace_comma(Tail(text))

\* A literal without its sign, and the sign.
Unsigned(text) == IF text # <<>> /\ Head(text) \in {"-", "+"} THEN Tail(text) ELSE text
SignOf(text) == IF text # <<>> /\ Head(text) = "-" THEN -1 ELSE 1

\* Without the characters c.
RECURSIVE Without(_, _)
Without(text, c) ==
    IF text = <<>> THEN <<>>
    ELSE (IF Head(text) = c THEN <<>> ELSE <<Head(text)>>) \o Without(Tail(text), c)

\* The number of characters after the point, 0 when there is none.
Decimals(text) ==
    IF \E i \in 1..Len(text) : text[i] = "."
    THEN Len(text) - (CHOOSE i \in 1..Len(text) : text[i] = ".")
    ELSE 0

ValueError == "ValueError"

\* float(text) for decimal literals: digits with at most one point and an
\* optional sign give the float nearest to the decimal; any other text of the
\* line edits here raises ValueError.
float(text) ==
    LET u == Unsigned(text)
        digits == Without(u, ".")
    IN IF digits = <<>> \/ Len(u) - Len(digits) > 1 \/ \E i \in 1..Len(digits) : ~IsDigit(digits[i])
       THEN [raised |-> ValueError, returned |-> None]
       ELSE [raised |-> NoError,
             returned |-> IF SignOf(text) = -1
                          THEN Neg(TrueDiv(DigitsValue(digits, 0), 10^Decimals(u)))
                          ELSE TrueDiv(DigitsValue(digits, 0), 10^Decimals(u))]

\* int(text) for decimal literals: digits with an optional sign.
int(text) ==
    LET u == Unsigned(text)
    IN IF u = <<>> \/ \E i \in 1..Len(u) : ~IsDigit(u[i])
       THEN [raised |-> ValueError, returned |-> 0]
       ELSE [raised |-> NoError, returned |-> SignOf(text) * DigitsValue(u, 0)]

\* A message box: its icon, its title and its text; none when no box is shown.
NoMessage == [icon |-> "", title |-> "", text |-> <<>>]
Warning(title, text) == [icon |-> "warning", title |-> title, text |-> text]
Critical(title, text) == [icon |-> "critical", title |-> title, text |-> text]

\* get_float_value given the stripped text and float(text) of it: the value of
\* the line edit, or None and the warning shown.
FloatValue(text, value, field_name) ==
    IF text = <<>>
    THEN [value |-> None, ok |-> FALSE,
          message_box |-> Warning("Input Required", <<field_name, " is required.">>)]
    ELSE IF value.raised # NoError
    THEN [value |-> None, ok |-> FALSE,
          message_box |-> Warning("Invalid Input",
              <<field_name, " must be a valid number (use . for decimal point).">>)]
    ELSE IF IsNeg(value.returned)
    THEN [value |-> None, ok |-> FALSE,
          message_box |-> Warning("Invalid Input", <<field_name, " must be positive.">>)]
    ELSE [value |-> value.returned, ok |-> TRUE, message_box |-> NoMessage]

get_float_value(line_edit, field_name) ==
    FloatValue(strip(line_edit), float(replace_comma(strip(line_edit))), field_name)

\* get_int_value given the stripped text and int(text) of it.
IntValue(text, value, field_name) ==
    IF text = <<>>
    THEN [value |-> 0, ok |-> FALSE,
          message_box |-> Warning("Input Required", <<field_name, " is required.">>)]
    ELSE IF value.raised # NoError
    THEN [value |-> 0, ok |-> FALSE,
          message_box |-> Warning("Invalid Input", <<field_name, " must be a valid whole number.">>)]
    ELSE IF value.returned < 0
    THEN [value |-> 0, ok |-> FALSE,
          message_box |-> Warning("Invalid Input", <<field_name, " must be positive.">>)]
    ELSE [value |-> value.returned, ok |-> TRUE, message_box |-> NoMessage]

get_int_value(line_edit, field_name) ==
    IntValue(strip(line_edit), int(strip(line_edit)), field_name)

\* The input section as InputSection.__init__ leaves it: both teams on
\* averages, the simple league average, every line edit empty.
InputSection ==
    [home_checkbox |-> TRUE, away_checkbox |-> TRUE, detailed_league_checkbox |-> FALSE,
     home_avg_widget |-> TRUE, home_totals_widget |-> FALSE,
     away_avg_widget |-> TRUE, away_totals_widget |-> FALSE,
     simple_league_widget |-> TRUE, detailed_league_widget |-> FALSE,
     league_avg_edit |-> <<>>, league_home_for_edit |-> <<>>, league_away_for_edit |-> <<>>,
     home_goals_for_edit |-> <<>>, home_goals_against_edit |-> <<>>,
     away_goals_for_edit |-> <<>>, away_goals_against_edit |-> <<>>,
     home_games_edit |-> <<>>, home_scored_edit |-> <<>>, home_conceded_edit |-> <<>>,
     away_games_edit |-> <<>>, away_scored_edit |-> <<>>, away_conceded_edit |-> <<>>]

\* toggle_input_mode: the check box of the team changes and the widget of the
\* chosen mode is shown, the other hidden.
toggle_input_mode(section, team_type, use_averages) ==
    IF team_type = "home"
    THEN [section EXCEPT !.home_checkbox = use_averages,
                         !.home_avg_widget = use_averages,
                         !.home_totals_widget = ~use_averages]
    ELSE [section EXCEPT !.away_checkbox = use_averages,
                         !.away_avg_widget = use_averages,
                         !.away_totals_widget = ~use_averages]

toggle_league_mode(section, use_detailed) ==
    [section EXCEPT !.detailed_league_checkbox = use_detailed,
                    !.simple_league_widget = ~use_detailed,
                    !.detailed_league_widget = use_detailed]

\* The three parts of get_input_data: the values read, in the order read.
LeagueValues(section) ==
    IF section.detailed_league_checkbox
    THEN <<get_float_value(section.league_home_for_edit, "Home teams goals for"),
           get_float_value(section.league_away_for_edit, "Away teams goals for")>>
    ELSE <<get_float_value(section.league_avg_edit, "League average")>>

HomeValues(section) ==
    IF section.home_checkbox
    THEN <<get_float_value(section.home_goals_for_edit, "Home goals for"),
           get_float_value(section.home_goals_against_edit, "Home goals against")>>
    ELSE <<get_int_value(section.home_games_edit, "Home games"),
           get_int_value(section.home_scored_edit, "Home goals scored"),
           get_int_value(section.home_conceded_edit, "Home goals conceded")>>

AwayValues(section) ==
    IF section.away_checkbox
    THEN <<get_float_value(section.away_goals_for_edit, "Away goals for"),
           get_float_value(section.away_goals_against_edit, "Away goals against")>>
    ELSE <<get_int_value(section.away_games_edit, "Away games"),
           get_int_value(section.away_scored_edit, "Away goals scored"),
           get_int_value(section.away_conceded_edit, "Away goals conceded")>>

\* The keys the values of each part are stored under.
LeagueKeys(section) ==
    IF section.detailed_league_checkbox THEN <<"league_home_for", "league_away_for">>
    ELSE <<"league_avg">>
HomeKeys(section) ==
    IF section.home_checkbox THEN <<"home_goals_for", "home_goals_against">>
    ELSE <<"home_games", "home_goals_scored", "home_goals_conceded">>
AwayKeys(section) ==
    IF section.away_checkbox THEN <<"away_goals_for", "away_goals_against">>
    ELSE <<"away_games", "away_goals_scored", "away_goals_conceded">>

\* The dict of the keys with the values read.
Entries(keys, values) == [key \in {keys[i] : i \in 1..Len(keys)} |->
                             values[CHOOSE i \in 1..Len(keys) : keys[i] = key].value]

\* get_input_data: the dict, or None after the warning of the first value
\* that cannot be read; the values of a part are all read before any is tested.
get_input_data(section) ==
    LET league == LeagueValues(section)
        home == HomeValues(section)
        away == AwayValues(section)
        failed(part) == \E i \in 1..Len(part) : ~part[i].ok
        shown(part) == part[CHOOSE i \in 1..Len(part) :
                               ~part[i].ok /\ \A j \in (i + 1)..Len(part) : part[j].ok].message_box
    IN IF failed(league) THEN [has_data |-> FALSE, data |-> None, message_box |-> shown(league)]
       ELSE IF failed(home) THEN [has_data |-> FALSE, data |-> None, message_box |-> shown(home)]
       ELSE IF failed(away) THEN [has_data |-> FALSE, data |-> None, message_box |-> shown(away)]
       ELSE [has_data |-> TRUE,
             data |-> ("use_averages" :> (section.home_checkbox /\ section.away_checkbox))
                      @@ ("use_detailed_league" :> section.detailed_league_checkbox)
                      @@ Entries(LeagueKeys(section), league)
                      @@ Entries(HomeKeys(section), home)
                      @@ Entries(AwayKeys(section), away),
             message_box |-> NoMessage]

\* str(KeyError(key))
KeyError(key) == "KeyError: '" \o key \o "'"

\* The first of the keys that input_data lacks, "" when it has them all.
MissingKey(input_data, keys) ==
    IF \E i \in 1..Len(keys) : keys[i] \notin DOMAIN input_data
    THEN keys[CHOOSE i \in 1..Len(keys) :
                  /\ keys[i] \notin DOMAIN input_data
                  /\ \A j \in 1..(i - 1) : keys[j] \in DOMAIN input_data]
    ELSE ""

\* The configuration call of calculate_probabilities: the arguments are looked
\* up in input_data from left to right, then the method is called.
ConfigureFromInput(calculator, d) ==
    LET keys == (IF d["use_averages"]
                 THEN <<"home_goals_for", "home_goals_against",
                        "away_goals_for", "away_goals_against">>
                 ELSE <<"home_games", "home_goals_scored", "home_goals_conceded",
                        "away_games", "away_goals_scored", "away_goals_conceded">>)
                \o (IF d["use_detailed_league"] THEN <<"league_home_for", "league_away_for">>
                    ELSE <<"league_avg">>)
    IN IF MissingKey(d, keys) # "" THEN Raises(calculator, KeyError(MissingKey(d, keys)))
       ELSE IF d["use_detailed_league"]
       THEN IF d["use_averages"]
            THEN set_team_averages_detailed(calculator,
                     d["home_goals_for"], d["home_goals_against"],
                     d["away_goals_for"], d["away_goals_against"],
                     d["league_home_for"], d["league_away_for"])
            ELSE set_team_from_totals_detailed(calculator,
                     d["home_games"], d["home_goals_scored"], d["home_goals_conceded"],
                     d["away_games"], d["away_goals_scored"], d["away_goals_conceded"],
                     d["league_home_for"], d["league_away_for"])
       ELSE IF d["use_averages"]
            THEN set_team_averages(calculator,
                     d["home_goals_for"], d["home_goals_against"],
                     d["away_goals_for"], d["away_goals_against"], d["league_avg"])
            ELSE set_team_from_totals(calculator,
                     d["home_games"], d["home_goals_scored"], d["home_goals_conceded"],
                     d["away_games"], d["away_goals_scored"], d["away_goals_conceded"],
                     d["league_avg"])

\* What the results table shows before the first update_results.
Placeholder == [shown |-> FALSE, summary_info |-> None, market_results |-> <<>>]

\* ResultsTable.update_results
update_results(summary_info, market_results) ==
    [shown |-> TRUE, summary_info |-> summary_info, market_results |-> market_results]

\* calculate_probabilities is followed statement by statement; each stage
\* takes what the stages before it have produced.  A stage gives the
\* calculator and the results table as the handler leaves them, the message box
\* it shows, the dict it read, and whether a configuration method was called
\* and calculate_strengths returned.
\* except Exception as e: QMessageBox.critical(...)
ShowError(table, d, r, called, calculated) ==
    [calculator |-> r.self, results_table |-> table, input_data |-> d,
     message_box |-> Critical("Calculation Error",
                              <<"An error occurred during calculation:", r.raised>>),
     configured |-> called, calculated |-> calculated]

\* self.results_table.update_results(summary_info, market_results)
ShowResults(table, d, summary_info, market_results) ==
    IF market_results.raised # NoError THEN ShowError(table, d, market_results, TRUE, TRUE)
    ELSE [calculator |-> market_results.self,
          results_table |-> update_results(summary_info.returned, market_results.returned),
          input_data |-> d, message_box |-> NoMessage,
          configured |-> TRUE, calculated |-> TRUE]

\* market_results = self.calculator.generate_market_analysis()
GetMarketResults(table, d, summary_info) ==
    IF summary_info.raised # NoError THEN ShowError(table, d, summary_info, TRUE, TRUE)
    ELSE ShowResults(table, d, summary_info,
                     generate_market_analysis(summary_info.self, DefaultMargin))

\* summary_info = self.calculator.get_summary_info()
GetSummaryInfo(table, d, strengths) ==
    IF strengths.raised # NoError THEN ShowError(table, d, strengths, TRUE, FALSE)
    ELSE GetMarketResults(table, d, get_summary_info(strengths.self))

\* self.calculator.calculate_strengths()
CalculateStrengths(table, d, configured) ==
    IF configured.raised # NoError
    THEN ShowError(table, d, configured, configured.raised = ZeroDivisionError, FALSE)
    ELSE GetSummaryInfo(table, d, calculate_strengths(configured.self))

\* if not input_data: return, and the configuration call
SetData(calculator, table, got) ==
    IF ~got.has_data
    THEN [calculator |-> calculator, results_table |-> table, input_data |-> None,
          message_box |-> got.message_box, configured |-> FALSE, calculated |-> FALSE]
    ELSE CalculateStrengths(table, got.data, ConfigureFromInput(calculator, got.data))

\* MainWindow.calculate_probabilities on the window's calculator.
calculate_probabilities(calculator, section, table) ==
    SetData(calculator, table, get_input_data(section))

(***************************************************************************)
(* The state: one calculator instance and the outcome of the last call     *)
(* made on it.                                                             *)
(***************************************************************************)
VARIABLES
    self,                 \* the PoissonCalculator instance
    call,                 \* the function called last
    args,                 \* its arguments
    raised,               \* the exception it raised, NoError when it returned
    returned,             \* the value it returned
    prob_matrix,          \* the last call's local of that name, <<>> if it has none
    over_under_results,   \* the last call's local of that name, <<>> if it has none
    strengths_calculated, \* history: calculate_strengths has returned on this instance
    strengths_detailed,   \* history: using_detailed_averages when it last returned
    configurations,       \* history: the number of configuration calls made
    input_section,        \* the window's input section: check boxes and line edits
    input_data,           \* the dict get_input_data returned last, None if none
    message_box,          \* the message box shown last
    results_table         \* what the window's results table shows

vars == <<self, call, args, raised, returned, prob_matrix, over_under_results,
          strengths_calculated, strengths_detailed, configurations,
          input_section, input_data, message_box, results_table>>

\* The window's part of the state.
window == <<input_section, input_data, message_box, results_table>>

\* The arguments the callers pass, per configuration method.
\* set_team_averages(home for, home against, away for, away against, league):
\* two ordinary matches; high averages over a low baseline, twice; low averages
\* over a high baseline; a zero average; a zero baseline; a negative average.
SimpleAverages ==
    {<<Decimal(190), Decimal(95), Decimal(120), Decimal(130), Decimal(270)>>,
     <<Decimal(250), Decimal(60), Decimal(80), Decimal(210), Decimal(250)>>,
     <<FromInt(4), FromInt(4), FromInt(4), FromInt(4), FromInt(1)>>,
     <<FromInt(3), FromInt(2), FromInt(3), FromInt(2), FromInt(1)>>,
     <<Decimal(25), Decimal(25), Decimal(25), Decimal(25), FromInt(32)>>,
     <<Zero, Decimal(95), Decimal(120), Decimal(130), Decimal(270)>>,
     <<Decimal(190), Decimal(95), Decimal(120), Decimal(130), Zero>>,
     <<Neg(Decimal(190)), Decimal(95), Decimal(120), Decimal(130), Decimal(270)>>}

\* set_team_averages_detailed(..., league home scoring, league away scoring)
DetailedAverages ==
    {<<Decimal(190), Decimal(95), Decimal(120), Decimal(130), Decimal(150), Decimal(120)>>,
     <<Decimal(190), Decimal(95), Decimal(120), Decimal(130), Zero, Decimal(120)>>}

\* set_team_from_totals(home games, scored, conceded, away games, scored,
\* conceded, league): the totals of the ordinary match, and a zero games count
\* of either team.
SimpleTotals ==
    {<<20, 38, 19, 20, 24, 26, Decimal(270)>>,
     <<0, 38, 19, 20, 24, 26, Decimal(270)>>,
     <<10, 38, 19, 0, 24, 26, Decimal(270)>>}

\* set_team_from_totals_detailed(..., league home scoring, league away scoring)
DetailedTotals ==
    {<<20, 38, 19, 20, 24, 26, Decimal(150), Decimal(120)>>,
     <<0, 38, 19, 20, 24, 26, Decimal(150), Decimal(120)>>,
     <<10, 38, 19, 0, 24, 26, Decimal(150), Decimal(120)>>}

\* get_team_data(games played, goals scored, goals conceded) as the console's
\* user enters them.
ConsoleTotals == {<<20, 38, 19>>, <<0, 38, 19>>}

\* generate_market_analysis(): the callers of the repository pass no margin;
\* the method takes any.
Margins == {<<>>, <<0>>, <<10>>}

\* At most this many configuration calls are made on the instance.
MaxConfigurations == 2

Init ==
    /\ self = __init__
    /\ call = "__init__"
    /\ args = <<>>
    /\ raised = NoError
    /\ returned = None
    /\ prob_matrix = <<>>
    /\ over_under_results = <<>>
    /\ strengths_calculated = FALSE
    /\ strengths_detailed = FALSE
    /\ configurations = 0
    /\ input_section = InputSection
    /\ input_data = None
    /\ message_box = NoMessage
    /\ results_table = Placeholder

\* The call `name` with arguments `a` ends as `r` says.
Outcome(name, a, r) ==
    /\ self' = r.self
    /\ call' = name
    /\ args' = a
    /\ raised' = r.raised
    /\ returned' = r.returned

CallSetTeamAverages ==
    /\ configurations < MaxConfigurations
    /\ \E a \in SimpleAverages :
           Outcome("set_team_averages", a, set_team_averages(self, a[1], a[2], a[3], a[4], a[5]))
    /\ configurations' = configurations + 1
    /\ prob_matrix' = <<>>
    /\ over_under_results' = <<>>
    /\ UNCHANGED <<strengths_calculated, strengths_detailed, window>>

CallSetTeamAveragesDetailed ==
    /\ configurations < MaxConfigurations
    /\ \E a \in DetailedAverages :
           Outcome("set_team_averages_detailed", a,
                   set_team_averages_detailed(self, a[1], a[2], a[3], a[4], a[5], a[6]))
    /\ configurations' = configurations + 1
    /\ prob_matrix' = <<>>
    /\ over_under_results' = <<>>
    /\ UNCHANGED <<strengths_calculated, strengths_detailed, window>>

CallSetTeamFromTotals ==
    /\ configurations < MaxConfigurations
    /\ \E a \in SimpleTotals :
           Outcome("set_team_from_totals", a,
                   set_team_from_totals(self, a[1], a[2], a[3], a[4], a[5], a[6], a[7]))
    /\ configurations' = configurations + 1
    /\ prob_matrix' = <<>>
    /\ over_under_results' = <<>>
    /\ UNCHANGED <<strengths_calculated, strengths_detailed, window>>

CallSetTeamFromTotalsDetailed ==
    /\ configurations < MaxConfigurations
    /\ \E a \in DetailedTotals :
           Outcome("set_team_from_totals_detailed", a,
                   set_team_from_totals_detailed(self, a[1], a[2], a[3], a[4], a[5], a[6], a[7], a[8]))
    /\ configurations' = configurations + 1
    /\ prob_matrix' = <<>>
    /\ over_under_results' = <<>>
    /\ UNCHANGED <<strengths_calculated, strengths_detailed, window>>

CallGetTeamData ==
    /\ \E a \in ConsoleTotals :
           Outcome("get_team_data", a, get_team_data(self, a[1], a[2], a[3]))
    /\ prob_matrix' = <<>>
    /\ over_under_results' = <<>>
    /\ UNCHANGED <<strengths_calculated, strengths_detailed, configurations, window>>

CallCalculateStrengths ==
    /\ Outcome("calculate_strengths", <<>>, calculate_strengths(self))
    /\ prob_matrix' = <<>>
    /\ over_under_results' = <<>>
    /\ strengths_calculated' = (strengths_calculated \/ calculate_strengths(self).raised = NoError)
    /\ strengths_detailed' = (IF calculate_strengths(self).raised = NoError
                              THEN self.using_detailed_averages ELSE strengths_detailed)
    /\ UNCHANGED <<configurations, window>>

CallGetSummaryInfo ==
    /\ Outcome("get_summary_info", <<>>, get_summary_info(self))
    /\ prob_matrix' = <<>>
    /\ over_under_results' = <<>>
    /\ UNCHANGED <<strengths_calculated, strengths_detailed, configurations, window>>

CallGenerateMarketAnalysis ==
    \E locals \in {MarketLocals(self)}, a \in Margins :
        /\ Outcome("generate_market_analysis", a,
                   MarketAnalysis(self, locals.over_under_results, MarginPercent(a)))
        /\ prob_matrix' = locals.prob_matrix
        /\ over_under_results' = locals.over_under_results
        /\ UNCHANGED <<strengths_calculated, strengths_detailed, configurations, window>>

Next ==
    \/ CallSetTeamAverages
    \/ CallSetTeamAveragesDetailed
    \/ CallSetTeamFromTotals
    \/ CallSetTeamFromTotalsDetailed
    \/ CallGetTeamData
    \/ CallCalculateStrengths
    \/ CallGetSummaryInfo
    \/ CallGenerateMarketAnalysis

Spec == Init /\ [][Next]_vars

(***************************************************************************)
(* _calculate_over_under_probabilities as a function of its argument: it   *)
(* is applied to matrices that no Poisson distribution need have produced. *)
(***************************************************************************)
\* The cells a threshold can count: those of at most 3 goals in total.
LowCells == {cell \in (0..3) \X (0..3) : cell[1] + cell[2] <= 3}

\* The values a cell takes: one is a few units in the last place of the other,
\* so that the order of the additions shows in the sums.
CellValues == {TrueDiv(17, 2048), TrueDiv(21, 128)}

\* The matrices: (MaxGoals + 1) x (MaxGoals + 1), each low cell any of the
\* values, the cells of more goals all 1/128.
Matrices ==
    {[home_goals \in 0..MaxGoals |->
        [away_goals \in 0..MaxGoals |->
            IF home_goals + away_goals <= 3
            THEN low[<<home_goals, away_goals>>]
            ELSE TrueDiv(1, 128)]] : low \in [LowCells -> CellValues]}

MatrixInit ==
    /\ self = __init__
    /\ call = "__init__"
    /\ args = <<>>
    /\ raised = NoError
    /\ returned = None
    /\ prob_matrix \in Matrices
    /\ over_under_results = <<>>
    /\ strengths_calculated = FALSE
    /\ strengths_detailed = FALSE
    /\ configurations = 0
    /\ input_section = InputSection
    /\ input_data = None
    /\ message_box = NoMessage
    /\ results_table = Placeholder

CallCalculateOverUnderProbabilities ==
    /\ call = "__init__"
    /\ call' = "_calculate_over_under_probabilities"
    /\ returned' = _calculate_over_under_probabilities(prob_matrix)
    /\ over_under_results' = returned'
    /\ UNCHANGED <<self, args, raised, prob_matrix, strengths_calculated, strengths_detailed,
                 configurations, window>>

MatrixNext == CallCalculateOverUnderProbabilities

MatrixSpec == MatrixInit /\ [][MatrixNext]_vars

(***************************************************************************)
(* The window in use: the user changes the check boxes, fills in the line  *)
(* edits and clicks Calculate; the window keeps one calculator.            *)
(***************************************************************************)
\* What the user has typed into the thirteen line edits: an ordinary match;
\* the same with an away games count of 0; the same with the home team's
\* goals scored per game left empty.
Ordinary ==
    [league_avg_edit |-> <<"2", ".", "7">>,
     league_home_for_edit |-> <<"1", ".", "5">>, league_away_for_edit |-> <<"1", ".", "2">>,
     home_goals_for_edit |-> <<"1", ".", "9">>, home_goals_against_edit |-> <<"0", ".", "9", "5">>,
     away_goals_for_edit |-> <<"1", ".", "2">>, away_goals_against_edit |-> <<"1", ".", "3">>,
     home_games_edit |-> <<"2", "0">>, home_scored_edit |-> <<"3", "8">>,
     home_conceded_edit |-> <<"1", "9">>,
     away_games_edit |-> <<"2", "0">>, away_scored_edit |-> <<"2", "4">>,
     away_conceded_edit |-> <<"2", "6">>]

Forms ==
    {Ordinary,
     [Ordinary EXCEPT !.away_games_edit = <<"0">>],
     [Ordinary EXCEPT !.home_goals_for_edit = <<>>]}

\* The user fills in the line edits.
EditText ==
    /\ \E form \in Forms :
          /\ input_section' = [name \in DOMAIN input_section |->
                                  IF name \in DOMAIN form THEN form[name] ELSE input_section[name]]
          /\ args' = <<form>>
    /\ call' = "textEdited"
    /\ raised' = NoError
    /\ returned' = None
    /\ prob_matrix' = <<>>
    /\ over_under_results' = <<>>
    /\ UNCHANGED <<self, input_data, message_box, results_table,
                   strengths_calculated, strengths_detailed, configurations>>

\* The user changes the check box of a team.
ToggleInputMode ==
    /\ \E team_type \in {"home", "away"} :
          LET use_averages == ~(IF team_type = "home" THEN input_section.home_checkbox
                                ELSE input_section.away_checkbox)
          IN /\ input_section' = toggle_input_mode(input_section, team_type, use_averages)
             /\ args' = <<team_type, use_averages>>
    /\ call' = "toggle_input_mode"
    /\ raised' = NoError
    /\ returned' = None
    /\ prob_matrix' = <<>>
    /\ over_under_results' = <<>>
    /\ UNCHANGED <<self, input_data, message_box, results_table,
                   strengths_calculated, strengths_detailed, configurations>>

\* The user changes the check box of the league averages.
ToggleLeagueMode ==
    /\ input_section' = toggle_league_mode(input_section, ~input_section.detailed_league_checkbox)
    /\ args' = <<~input_section.detailed_league_checkbox>>
    /\ call' = "toggle_league_mode"
    /\ raised' = NoError
    /\ returned' = None
    /\ prob_matrix' = <<>>
    /\ over_under_results' = <<>>
    /\ UNCHANGED <<self, input_data, message_box, results_table,
                   strengths_calculated, strengths_detailed, configurations>>

\* The user clicks Calculate: on_calculate_clicked emits calculation_requested,
\* which is connected to calculate_probabilities.
OnCalculateClicked ==
    /\ configurations < MaxConfigurations
    /\ \E done \in {calculate_probabilities(self, input_section, results_table)} :
          /\ self' = done.calculator
          /\ input_data' = done.input_data
          /\ message_box' = done.message_box
          /\ results_table' = done.results_table
          /\ configurations' = configurations + (IF done.configured THEN 1 ELSE 0)
          /\ strengths_calculated' = (strengths_calculated \/ done.calculated)
          /\ strengths_detailed' = (IF done.calculated THEN done.calculator.using_detailed_averages
                                    ELSE strengths_detailed)
    /\ call' = "calculate_probabilities"
    /\ args' = <<>>
    /\ raised' = NoError
    /\ returned' = None
    /\ prob_matrix' = <<>>
    /\ over_under_results' = <<>>
    /\ UNCHANGED input_section

WindowNext ==
    \/ EditText
    \/ ToggleInputMode
    \/ ToggleLeagueMode
    \/ OnCalculateClicked

WindowSpec == Init /\ [][WindowNext]_vars

(***************************************************************************)
(* The properties.                                                         *)
(***************************************************************************)
\* generate_market_analysis has returned its table.
AnalysisReturned == call = "generate_market_analysis" /\ raised = NoError

\* The positions of the entries of over_under_results, one per threshold.
Markets == 1..Len(over_under_results)

\* Every number the analysis reads from the instance is positive and finite:
\* the averages and baselines of the active mode and the four strengths.
PositiveInstance(inst) ==
    \A x \in {inst.home_avg_goals_for, inst.home_avg_goals_against,
              inst.away_avg_goals_for, inst.away_avg_goals_against,
              inst.home_attack_strength, inst.home_defense_strength,
              inst.away_attack_strength, inst.away_defense_strength}
             \cup (IF inst.using_detailed_averages
                   THEN {inst.league_home_goals_for, inst.league_away_goals_for}
                   ELSE {inst.league_avg_goals}) :
        IsFin(x) /\ IsPos(x)

\* No cell of the matrix is negative (or NaN).
NonNegativeCells(matrix) ==
    \A home_goals \in DOMAIN matrix : \A away_goals \in DOMAIN matrix[home_goals] :
        matrix[home_goals][away_goals].k # "nan" /\ ~IsNeg(matrix[home_goals][away_goals])

\* a >= b for two formatted numbers.
ShownAtLeast(a, b) ==
    /\ a.k # "nan" /\ b.k # "nan"
    /\ IF a.k = "inf" THEN a.s = 1 \/ (b.k = "inf" /\ b.s = -1)
       ELSE IF b.k = "inf" THEN b.s = -1
       ELSE a.s * a.v >= b.s * b.v

\* A formatted number reads 0.00 (of either sign).
ShowsZero(text) == text.k = "dec" /\ text.v = 0

\* A field the active mode's calculate_strengths requires is None.
MissingInputs(inst) ==
    \E x \in {inst.home_avg_goals_for, inst.home_avg_goals_against,
              inst.away_avg_goals_for, inst.away_avg_goals_against}
             \cup (IF inst.using_detailed_averages
                   THEN {inst.league_home_goals_for, inst.league_home_goals_against,
                         inst.league_away_goals_for, inst.league_away_goals_against}
                   ELSE {inst.league_avg_goals}) :
        x = None

\* The four strengths of an instance.
Strengths(inst) ==
    <<inst.home_attack_strength, inst.home_defense_strength,
      inst.away_attack_strength, inst.away_defense_strength>>

\* The strengths of the instance are those calculate_strengths derives from its
\* present configuration.
StrengthsCurrent(inst) == calculate_strengths(inst) = Returns(inst, None)

\* The instance configured with the two teams exchanged (in detailed mode the two
\* league baselines with them) and its strengths calculated.
SwappedTeams(inst) ==
    calculate_strengths(
        IF inst.using_detailed_averages
        THEN set_team_averages_detailed(inst,
                 inst.away_avg_goals_for, inst.away_avg_goals_against,
                 inst.home_avg_goals_for, inst.home_avg_goals_against,
                 inst.league_away_goals_for, inst.league_home_goals_for).self
        ELSE set_team_averages(inst,
                 inst.away_avg_goals_for, inst.away_avg_goals_against,
                 inst.home_avg_goals_for, inst.home_avg_goals_against,
                 inst.league_avg_goals).self).self

\* C1: on an instance that has been configured and on which calculate_strengths
\* has never returned, generate_market_analysis and get_summary_info raise the
\* error that names the missing step; they return nothing and compute no matrix
\* and no market.
C1_SequencingError ==
    (configurations > 0 /\ ~strengths_calculated
        /\ call \in {"generate_market_analysis", "get_summary_info"})
    => /\ raised = (IF call = "generate_market_analysis" THEN MarketError ELSE SummaryError)
       /\ returned = None
       /\ prob_matrix = <<>>
       /\ over_under_results = <<>>

C1_Witness ==
    /\ configurations > 0
    /\ ~strengths_calculated
    /\ self.home_avg_goals_for # None
    /\ call = "generate_market_analysis"
    /\ raised = MarketError

\* C2: for positive inputs, the under and the over probability of every
\* threshold add up to exactly 1 (in floating point).
C2_Complement ==
    (AnalysisReturned /\ PositiveInstance(self))
    => \A i \in Markets :
           Add(over_under_results[i].under_probability,
               over_under_results[i].over_probability) = One

C2_Witness ==
    /\ AnalysisReturned
    /\ PositiveInstance(self)
    /\ Len(over_under_results) = 4
    /\ \E i \in Markets :
           /\ IsPos(over_under_results[i].under_probability)
           /\ IsPos(over_under_results[i].over_probability)
           /\ over_under_results[i].over_probability
                  # over_under_results[i].under_probability

\* C3: for a matrix without negative cells, the under probability does not
\* decrease and the over probability does not increase from one threshold to
\* the next, 0.5 <= 1.5 <= 2.5 <= 3.5.
C3_Monotone ==
    (over_under_results # <<>> /\ NonNegativeCells(prob_matrix))
    => \A i \in Markets : i + 1 \in Markets =>
           /\ Ge(over_under_results[i + 1].under_probability,
                 over_under_results[i].under_probability)
           /\ Ge(over_under_results[i].over_probability,
                 over_under_results[i + 1].over_probability)

C3_Witness ==
    /\ call = "_calculate_over_under_probabilities"
    /\ NonNegativeCells(prob_matrix)
    /\ Len(over_under_results) = 4
    /\ \A i \in 1..3 :
           Gt(over_under_results[i + 1].under_probability,
              over_under_results[i].under_probability)

\* C4: for a margin that is not negative, the odds with margin the table shows
\* are the fair odds times (1 + margin / 100), for the under and for the over
\* odds, infinite odds included; they are not below the fair odds; and a call
\* without a margin applies 3.
C4_MarginApplied ==
    (AnalysisReturned /\ (args = <<>> \/ args[1] >= 0))
    => \A i \in Markets :
           LET multiplier == Add(One, TrueDiv(IF args = <<>> THEN 3 ELSE args[1], 100))
               data == over_under_results[i]
               row == returned[i]
           IN /\ row.OddsWithMargin = Format2f(Mul(data.under_odds, multiplier))
              /\ row.OppositeOddsWithMargin = Format2f(Mul(data.over_odds, multiplier))
              /\ ShownAtLeast(row.OddsWithMargin, row.FairOddsText)
              /\ ShownAtLeast(row.OppositeOddsWithMargin, Format2f(data.over_odds))

C4_Witness ==
    /\ AnalysisReturned
    /\ args = <<>>
    /\ \E i \in Markets :
           /\ returned[i].FairOddsText.k = "dec"
           /\ returned[i].OddsWithMargin.k = "dec"
           /\ returned[i].OddsWithMargin.v > returned[i].FairOddsText.v
    /\ \E i \in Markets : returned[i].OppositeOddsWithMargin.k = "inf"

\* C5: with the strengths calculated from the present configuration, the
\* instance with the two teams exchanged has the two expectancies exchanged, the
\* same total, and for every threshold the same under and over probability.
C5_Symmetry ==
    (AnalysisReturned /\ StrengthsCurrent(self))
    => LET mine == _calculate_goal_expectancy(self).returned
           theirs == _calculate_goal_expectancy(SwappedTeams(self)).returned
           results == MarketLocals(SwappedTeams(self)).over_under_results
       IN /\ theirs = <<mine[2], mine[1]>>
          /\ Add(theirs[1], theirs[2]) = Add(mine[1], mine[2])
          /\ Len(results) = Len(over_under_results)
          /\ \A i \in Markets :
                 /\ results[i].under_probability = over_under_results[i].under_probability
                 /\ results[i].over_probability = over_under_results[i].over_probability

\* C6: a configuration from totals stores what the configuration from the
\* averages goals / games stores, in simple and in detailed mode, so that all
\* that is computed from the instance is the same; 38 and 19 goals in 20 games
\* are the averages 1.90 and 0.95.
C6_TotalsEquivalence ==
    [][/\ (call' = "set_team_from_totals" /\ raised' = NoError)
          => /\ self' = set_team_averages(self,
                            TrueDiv(args'[2], args'[1]), TrueDiv(args'[3], args'[1]),
                            TrueDiv(args'[5], args'[4]), TrueDiv(args'[6], args'[4]),
                            args'[7]).self
             /\ (args'[1] = 20 /\ args'[2] = 38 /\ args'[3] = 19)
                => /\ self'.home_avg_goals_for = Decimal(190)
                   /\ self'.home_avg_goals_against = Decimal(95)
       /\ (call' = "set_team_from_totals_detailed" /\ raised' = NoError)
          => /\ self' = set_team_averages_detailed(self,
                            TrueDiv(args'[2], args'[1]), TrueDiv(args'[3], args'[1]),
                            TrueDiv(args'[5], args'[4]), TrueDiv(args'[6], args'[4]),
                            args'[7], args'[8]).self
             /\ (args'[1] = 20 /\ args'[2] = 38 /\ args'[3] = 19)
                => /\ self'.home_avg_goals_for = Decimal(190)
                   /\ self'.home_avg_goals_against = Decimal(95)
      ]_vars

C6_Witness ==
    /\ call = "set_team_from_totals"
    /\ raised = NoError
    /\ args[1] = 20 /\ args[2] = 38 /\ args[3] = 19
    /\ self.home_avg_goals_for = Decimal(190)
    /\ self.home_avg_goals_against = Decimal(95)
    /\ self.home_avg_goals_for # FromInt(1)

\* C7: the fair odds of a positive probability are 1 / probability; those of a
\* probability of exactly 0, under or over, are positive infinity, the odds with
\* margin shown for them are infinite too, and the call raises no division
\* error.
C7_FairOdds ==
    /\ call = "generate_market_analysis" => raised # ZeroDivisionError
    /\ AnalysisReturned
       => \A i \in Markets :
              LET data == over_under_results[i]
                  row == returned[i]
              IN /\ Gt(data.under_probability, Zero)
                    => data.under_odds = Div(One, data.under_probability)
                 /\ Gt(data.over_probability, Zero)
                    => data.over_odds = Div(One, data.over_probability)
                 /\ IsZero(data.under_probability)
                    => /\ data.under_odds = Inf(1)
                       /\ row.FairOddsText.k = "inf" /\ row.FairOddsText.s = 1
                       /\ (args = <<>> \/ args[1] >= 0)
                          => (row.OddsWithMargin.k = "inf" /\ row.OddsWithMargin.s = 1)
                 /\ IsZero(data.over_probability)
                    => /\ data.over_odds = Inf(1)
                       /\ (args = <<>> \/ args[1] >= 0)
                          => (row.OppositeOddsWithMargin.k = "inf"
                              /\ row.OppositeOddsWithMargin.s = 1)

C7_Witness ==
    /\ AnalysisReturned
    /\ \E i \in Markets :
           /\ IsZero(over_under_results[i].under_probability)
           /\ over_under_results[i].under_odds = Inf(1)
           /\ returned[i].FairOddsText.k = "inf"
           /\ returned[i].OddsWithMargin.k = "inf"

\* C8 as the specification states it: an under probability shown as 0.00% has
\* infinite fair odds.
C8_ZeroPercentInfinite ==
    AnalysisReturned
    => \A i \in Markets :
           ShowsZero(returned[i].Probability) => returned[i].FairOddsText.k = "inf"

\* C8, amended: an under probability shown as 0.00% has infinite fair odds when
\* it is not above 0, and otherwise the fair odds 1 / probability, a (large)
\* number; the call raises no division error.
C8_ZeroPercentOdds ==
    /\ call = "generate_market_analysis" => raised # ZeroDivisionError
    /\ AnalysisReturned
       => \A i \in Markets :
              ShowsZero(returned[i].Probability)
              => returned[i].FairOddsText =
                     IF Gt(over_under_results[i].under_probability, Zero)
                     THEN Format2f(Div(One, over_under_results[i].under_probability))
                     ELSE Format2f(Inf(1))

C8_Witness ==
    /\ AnalysisReturned
    /\ \E i \in Markets :
           /\ ShowsZero(returned[i].Probability)
           /\ IsPos(over_under_results[i].under_probability)
           /\ returned[i].FairOddsText.k = "dec"
           /\ returned[i].FairOddsText.v > 0

\* C9: calculate_strengths on an instance that lacks an input of its mode raises
\* the error of that mode, returns nothing and leaves the instance, its four
\* strengths included, as it was.
C9_MissingInputs ==
    [][(call' = "calculate_strengths" /\ MissingInputs(self))
       => /\ raised' = (IF self.using_detailed_averages
                        THEN StrengthsErrorDetailed ELSE StrengthsErrorSimple)
          /\ returned' = None
          /\ self' = self
          /\ prob_matrix' = <<>>
          /\ over_under_results' = <<>>
      ]_vars

C9_Witness ==
    /\ call = "calculate_strengths"
    /\ raised = StrengthsErrorSimple
    /\ self.home_avg_goals_for # None
    /\ self.away_avg_goals_for = None
    /\ Strengths(self) = <<None, None, None, None>>

\* C10: a configuration from totals with a games count of 0, of either team,
\* raises the division error in that call: it returns nothing, no strength
\* changes, no matrix and no market is computed, and the averages of the team
\* with no games stay what they were.  The same in the console's get_team_data.
C10_ZeroGames ==
    [][/\ (call' \in {"set_team_from_totals", "set_team_from_totals_detailed"}
           /\ (args'[1] = 0 \/ args'[4] = 0))
          => /\ raised' = ZeroDivisionError
             /\ returned' = None
             /\ Strengths(self') = Strengths(self)
             /\ prob_matrix' = <<>>
             /\ over_under_results' = <<>>
             /\ args'[1] = 0
                => /\ self'.home_avg_goals_for = self.home_avg_goals_for
                   /\ self'.home_avg_goals_against = self.home_avg_goals_against
             /\ args'[4] = 0
                => /\ self'.away_avg_goals_for = self.away_avg_goals_for
                   /\ self'.away_avg_goals_against = self.away_avg_goals_against
       /\ (call' = "get_team_data" /\ args'[1] = 0)
          => /\ raised' = ZeroDivisionError
             /\ returned' = None
             /\ self' = self
      ]_vars

C10_Witness ==
    /\ call = "set_team_from_totals"
    /\ args[1] # 0
    /\ args[4] = 0
    /\ raised = ZeroDivisionError
    /\ self.away_avg_goals_for = None

\* The fields of an instance that hold numbers.
NumberFields(inst) ==
    {inst.home_avg_goals_for, inst.home_avg_goals_against,
     inst.away_avg_goals_for, inst.away_avg_goals_against,
     inst.league_avg_goals,
     inst.league_home_goals_for, inst.league_home_goals_against,
     inst.league_away_goals_for, inst.league_away_goals_against,
     inst.home_attack_strength, inst.home_defense_strength,
     inst.away_attack_strength, inst.away_defense_strength}

\* C11: a configuration call that is given a negative average or baseline
\* raises an error, and no negative number is ever stored in the instance or
\* used for a strength, an expectancy or a probability.
C11_NegativeRejected ==
    /\ (call \in {"set_team_averages", "set_team_averages_detailed"}
        /\ \E i \in DOMAIN args : IsNeg(args[i]))
       => raised # NoError
    /\ \A x \in NumberFields(self) : ~IsNeg(x)

\* C12: every table generate_market_analysis returns has one row per threshold,
\* four rows, in the ascending order of the thresholds 0.5, 1.5, 2.5, 3.5, with
\* the labels 'Under 0.5' to 'Under 3.5'; so have the results it is built from.
C12_RowsInOrder ==
    AnalysisReturned
    => /\ Len(returned) = 4
       /\ Len(over_under_results) = 4
       /\ [i \in 1..4 |-> returned[i].Market]
              = <<"Under 0.5", "Under 1.5", "Under 2.5", "Under 3.5">>
       /\ [i \in 1..4 |-> over_under_results[i].market]
              = <<"Under 0.5", "Under 1.5", "Under 2.5", "Under 3.5">>
       /\ \A i \in 1..3 : Gt(Thresholds[i + 1], Thresholds[i])
       /\ \A i \in 1..4 :
              over_under_results[i].under_probability
                  = UnderProbability(prob_matrix, Decimal(100 * i - 50))

C12_Witness ==
    /\ AnalysisReturned
    /\ Len(returned) = 4
    /\ returned[1].Market = "Under 0.5"
    /\ returned[4].Market = "Under 3.5"
    /\ returned[1].Probability # returned[4].Probability

\* The configuration of an instance: every field but the four strengths.
Configuration(inst) ==
    <<inst.home_avg_goals_for, inst.home_avg_goals_against,
      inst.away_avg_goals_for, inst.away_avg_goals_against,
      inst.league_avg_goals, inst.using_detailed_averages,
      inst.league_home_goals_for, inst.league_home_goals_against,
      inst.league_away_goals_for, inst.league_away_goals_against>>

\* The two analyses and the four configuration methods.
Analyses == {"get_summary_info", "generate_market_analysis"}
ConfigurationCalls ==
    {"set_team_averages", "set_team_averages_detailed",
     "set_team_from_totals", "set_team_from_totals_detailed"}

\* C13: get_summary_info and generate_market_analysis leave every field of the
\* instance as it was, whether they return or raise; calculate_strengths changes
\* at most the four strengths; an analysis called again with the same arguments
\* right after itself gives the same outcome; and the mode flag changes only in
\* a configuration call.
C13_NonDestructive ==
    [][/\ call' \in Analyses => self' = self
       /\ call' = "calculate_strengths" => Configuration(self') = Configuration(self)
       /\ (call \in Analyses /\ call' = call /\ args' = args)
          => /\ returned' = returned
             /\ raised' = raised
             /\ over_under_results' = over_under_results
       /\ self'.using_detailed_averages # self.using_detailed_averages
          => call' \in ConfigurationCalls
      ]_vars

C13_Witness ==
    /\ AnalysisReturned
    /\ StrengthsCurrent(self)
    /\ PositiveInstance(self)
    /\ self.using_detailed_averages
    /\ Len(returned) = 4

\* The inputs calculate_strengths requires in the mode of the instance.
RequiredInputs(inst) ==
    {inst.home_avg_goals_for, inst.home_avg_goals_against,
     inst.away_avg_goals_for, inst.away_avg_goals_against}
    \cup (IF inst.using_detailed_averages
          THEN {inst.league_home_goals_for, inst.league_home_goals_against,
                inst.league_away_goals_for, inst.league_away_goals_against}
          ELSE {inst.league_avg_goals})

\* x is a number above zero (infinity included).
StrictlyPositive(x) == x.k \in {"fin", "inf"} /\ IsPos(x)

C15_StrengthQuotients ==
    [][(call' = "calculate_strengths" /\ raised' = NoError)
       => Strengths(self') =
              IF self.using_detailed_averages
              THEN <<Div(self.home_avg_goals_for, self.league_home_goals_for),
                     Div(self.home_avg_goals_against, self.league_away_goals_for),
                     Div(self.away_avg_goals_for, self.league_away_goals_for),
                     Div(self.away_avg_goals_against, self.league_home_goals_for)>>
              ELSE <<Div(self.home_avg_goals_for, self.league_avg_goals),
                     Div(self.home_avg_goals_against, self.league_avg_goals),
                     Div(self.away_avg_goals_for, self.league_avg_goals),
                     Div(self.away_avg_goals_against, self.league_avg_goals)>>
      ]_vars

C15_Witness ==
    /\ call = "calculate_strengths"
    /\ raised = NoError
    /\ self.using_detailed_averages
    /\ self.league_home_goals_for # self.league_away_goals_for
    /\ self.home_defense_strength = Div(self.home_avg_goals_against, self.league_away_goals_for)
    /\ self.home_defense_strength # Div(self.home_avg_goals_against, self.league_home_goals_for)
    /\ self.away_defense_strength = Div(self.away_avg_goals_against, self.league_home_goals_for)
    /\ self.away_defense_strength # Div(self.away_avg_goals_against, self.league_away_goals_for)

\* C16: the expectancies an analysis computes are home attack * away defense *
\* B_home and away attack * home defense * B_away, where B_home and B_away are
\* the league home and away scoring averages if the strengths were calculated
\* in detailed mode and both the league average if they were calculated in
\* simple mode; get_summary_info reports them to two decimals.
C16_ExpectancyBaseline ==
    (call \in Analyses /\ raised = NoError)
    => LET B_home == IF strengths_detailed THEN self.league_home_goals_for
                     ELSE self.league_avg_goals
           B_away == IF strengths_detailed THEN self.league_away_goals_for
                     ELSE self.league_avg_goals
           home == Mul(Mul(self.home_attack_strength, self.away_defense_strength), B_home)
           away == Mul(Mul(self.away_attack_strength, self.home_defense_strength), B_away)
       IN /\ _calculate_goal_expectancy(self).returned = <<home, away>>
          /\ call = "get_summary_info"
             => /\ returned.home_expected_goals = Format2f(home)
                /\ returned.away_expected_goals = Format2f(away)

\* The cells <<home_goals, away_goals>> of at most n goals in total, row by row.
CellsUpTo(n) ==
    CASE n = 0 -> << <<0, 0>> >>
      [] n = 1 -> << <<0, 0>>, <<0, 1>>, <<1, 0>> >>
      [] n = 2 -> << <<0, 0>>, <<0, 1>>, <<0, 2>>, <<1, 0>>, <<1, 1>>, <<2, 0>> >>
      [] n = 3 -> << <<0, 0>>, <<0, 1>>, <<0, 2>>, <<0, 3>>, <<1, 0>>, <<1, 1>>, <<1, 2>>,
                     <<2, 0>>, <<2, 1>>, <<3, 0>> >>

\* C17: the under probability of the thresholds 0.5, 1.5, 2.5, 3.5 is the sum,
\* row by row, of the cells of at most 0, 1, 2, 3 goals in total: 1, 3, 6 and 10
\* cells, which are all the cells of the matrix with home_goals + away_goals
\* <= floor(threshold), each once, and no other cell.
C17_CellsCounted ==
    over_under_results # <<>>
    => /\ Len(over_under_results) = 4
       /\ \A n \in 0..3 :
              /\ Len(CellsUpTo(n)) = ((n + 1) * (n + 2)) \div 2
              /\ Cardinality({CellsUpTo(n)[i] : i \in 1..Len(CellsUpTo(n))}) = Len(CellsUpTo(n))
              /\ {CellsUpTo(n)[i] : i \in 1..Len(CellsUpTo(n))}
                     = {cell \in (DOMAIN prob_matrix) \X (DOMAIN prob_matrix[0]) :
                            cell[1] + cell[2] <= n}
              /\ over_under_results[n + 1].under_probability
                     = Accumulate(prob_matrix, CellsUpTo(n), 1, Zero)

C17_Witness ==
    /\ call = "_calculate_over_under_probabilities"
    /\ Len(over_under_results) = 4
    /\ prob_matrix[0][1] # prob_matrix[1][0]
    /\ prob_matrix[1][2] # prob_matrix[2][1]
    /\ over_under_results[4].under_probability = Accumulate(prob_matrix, CellsUpTo(3), 1, Zero)
    /\ IsPos(prob_matrix[2][2])

\* A stored value in units of the least subnormal, 2^-MinExp: an integer.
Units(x) == x.s * x.m * 2^(x.e + MinExp)

\* The exact sum, in units, of the cells from position n on; acc is the sum so far.
RECURSIVE UnitsSum(_, _, _, _)
UnitsSum(matrix, cells, n, acc) ==
    IF n > Len(cells) THEN acc
    ELSE UnitsSum(matrix, cells, n + 1, acc + Units(matrix[cells[n][1]][cells[n][2]]))

\* The exact sum of all the cells of the matrix, in units.
TotalUnits(matrix) == UnitsSum(matrix, LoopOrder(matrix), 1, 0)

\* k! for k = 0..8
FactorialTable == <<1, 1, 2, 6, 24, 120, 720, 5040, 40320>>

\* An analysis has built its matrix from expectancies that are finite and not
\* negative.
MatrixBuilt ==
    /\ AnalysisReturned
    /\ \A i \in 1..2 :
           /\ IsFin(_calculate_goal_expectancy(self).returned[i])
           /\ ~IsNeg(_calculate_goal_expectancy(self).returned[i])

\* The matrix is the 9 x 9 grid of the products of the two Poisson
\* probabilities, lam^k * e^(-lam) / k! in floating point, each within [0, 1].
PoissonGrid ==
    LET lam == _calculate_goal_expectancy(self).returned
        pmf == [i \in 1..2 |-> [k \in 0..8 |->
                   Div(Mul(Pow(lam[i], k), Exp(Neg(lam[i]))), FromInt(FactorialTable[k + 1]))]]
    IN /\ DOMAIN prob_matrix = 0..8
       /\ \A home_goals \in 0..8 : DOMAIN prob_matrix[home_goals] = 0..8
       /\ Len(LoopOrder(prob_matrix)) = 81
       /\ \A home_goals \in 0..8 : \A away_goals \in 0..8 :
              /\ prob_matrix[home_goals][away_goals]
                     = Mul(pmf[1][home_goals], pmf[2][away_goals])
              /\ Ge(prob_matrix[home_goals][away_goals], Zero)
              /\ Ge(One, prob_matrix[home_goals][away_goals])

\* C18 as the specification states it: the matrix is the 9 x 9 grid of the
\* Poisson products, each in [0, 1], and the sum of its cells is at most 1.
C18_SumAtMostOne ==
    MatrixBuilt => (PoissonGrid /\ TotalUnits(prob_matrix) <= 2^MinExp)

\* C18, amended: the matrix is the 9 x 9 grid of the Poisson products, each in
\* [0, 1]; the sum of its cells is at most 1 up to the rounding of the cells,
\* which is below 16 units in the last place of 1: 1 + 2^(4 - Precision).
C18_SumWithinRounding ==
    MatrixBuilt
    => (PoissonGrid /\ TotalUnits(prob_matrix) <= 2^MinExp + 2^(MinExp + 4 - Precision))

C18_Witness ==
    /\ MatrixBuilt
    /\ PoissonGrid
    /\ IsPos(prob_matrix[1][1])
    /\ TotalUnits(prob_matrix) > 2^MinExp

\* C19: when generate_market_analysis comes to build the matrix with a home or
\* an away expectancy that is not above zero, the call raises an error and no
\* matrix is built.
C19_ExpectancyGuard ==
    (/\ call = "generate_market_analysis"
     /\ _calculate_goal_expectancy(self).raised = NoError
     /\ \E i \in 1..2 : ~StrictlyPositive(_calculate_goal_expectancy(self).returned[i]))
    => /\ raised # NoError
       /\ prob_matrix = <<>>

\* C20: in every state of the instance, after configuration calls that returned
\* or raised, the league conceding baselines mirror the scoring baselines:
\* league_home_goals_against is league_away_goals_for and
\* league_away_goals_against is league_home_goals_for, both unset or both the
\* same number.
C20_MirroredBaselines ==
    /\ self.league_home_goals_against = self.league_away_goals_for
    /\ self.league_away_goals_against = self.league_home_goals_for
    /\ (self.league_home_goals_for = None) = (self.league_away_goals_for = None)

C20_Witness ==
    /\ call = "set_team_from_totals_detailed"
    /\ raised = ZeroDivisionError
    /\ configurations = 2
    /\ self.league_home_goals_for # None
    /\ self.league_home_goals_for # self.league_away_goals_for
    /\ self.league_home_goals_against = self.league_away_goals_for
    /\ self.league_away_goals_against = self.league_home_goals_for

\* The cells of more than n goals in total, row by row.
OverCells(matrix, n) ==
    SelectSeq(LoopOrder(matrix), LAMBDA cell : cell[1] + cell[2] > n)

\* The exact sum, in units, of the cells of more than n goals in total.
OverCellsUnits(matrix, n) == UnitsSum(matrix, OverCells(matrix, n), 1, 0)

\* The rounding allowed for: 16 units in the last place of 1, in units.
RoundingUnits == 2^(MinExp + 4 - Precision)

\* C21 as the specification states it: for each threshold the over probability
\* is at least the sum of the cells of the grid whose total goals exceed the
\* threshold, and lies in [0, 1].
C21_TailToOver ==
    MatrixBuilt
    => \A n \in 0..3 :
           LET over == over_under_results[n + 1].over_probability
           IN /\ Ge(over, Zero)
              /\ Ge(One, over)
              /\ Units(over) >= OverCellsUnits(prob_matrix, n)

\* C21, amended: for each threshold the over probability is 1 - under
\* probability, one rounded subtraction, so that all that is not in the under
\* sum is in it; it is at most 1, and it is not negative and not below the sum
\* of the cells whose total goals exceed the threshold up to rounding, 16
\* units in the last place of 1.
C21_ComplementWithinRounding ==
    MatrixBuilt
    => \A n \in 0..3 :
           LET over == over_under_results[n + 1].over_probability
           IN /\ over = Sub(One, over_under_results[n + 1].under_probability)
              /\ IsFin(over)
              /\ Ge(One, over)
              /\ Units(over) + RoundingUnits >= 0
              /\ Units(over) + RoundingUnits >= OverCellsUnits(prob_matrix, n)

C21_Witness ==
    /\ MatrixBuilt
    /\ \E n \in 0..3 :
           /\ IsPos(prob_matrix[n + 1][0])
           /\ Units(over_under_results[n + 1].over_probability)
                  < OverCellsUnits(prob_matrix, n)
    /\ \E n \in 0..3 :
           /\ IsPos(over_under_results[n + 1].over_probability)
           /\ Units(over_under_results[n + 1].over_probability)
                  > OverCellsUnits(prob_matrix, n)

\* C22: on an instance whose strengths have been calculated, an analysis called
\* right after a configuration call that returned (no calculate_strengths in
\* between) raises the error that names the missing step and returns nothing.
C22_ReconfigurationResets ==
    [][(/\ call \in ConfigurationCalls
        /\ raised = NoError
        /\ strengths_calculated
        /\ call' \in Analyses)
       => /\ raised' = (IF call' = "generate_market_analysis"
                        THEN MarketError ELSE SummaryError)
          /\ returned' = None
          /\ over_under_results' = <<>>
      ]_vars

\* C23: in every state the four strengths are all unset or all set, and a
\* calculate_strengths that raises leaves the four as they were.
C23_StrengthsTogether ==
    /\ [](\/ \A i \in 1..4 : Strengths(self)[i] = None
          \/ \A i \in 1..4 : Strengths(self)[i] # None)
    /\ [][(call' = "calculate_strengths" /\ raised' # NoError)
          => Strengths(self') = Strengths(self)]_vars

C23_Witness ==
    /\ call = "calculate_strengths"
    /\ raised = StrengthsErrorSimple
    /\ strengths_calculated
    /\ IsZero(self.league_avg_goals)
    /\ \A i \in 1..4 : IsPos(Strengths(self)[i])

\* C24: a set_team_from_totals or set_team_from_totals_detailed call that
\* raises leaves the stored averages, league baselines and mode flag exactly
\* as they were before the call.
C24_FailedConfigurationAtomic ==
    [][(/\ call' \in {"set_team_from_totals", "set_team_from_totals_detailed"}
        /\ raised' # NoError)
       => Configuration(self') = Configuration(self)]_vars

\* The configuration method `name` called on inst with the arguments a.
Configure(inst, name, a) ==
    CASE name = "set_team_averages" ->
             set_team_averages(inst, a[1], a[2], a[3], a[4], a[5])
      [] name = "set_team_averages_detailed" ->
             set_team_averages_detailed(inst, a[1], a[2], a[3], a[4], a[5], a[6])
      [] name = "set_team_from_totals" ->
             set_team_from_totals(inst, a[1], a[2], a[3], a[4], a[5], a[6], a[7])
      [] name = "set_team_from_totals_detailed" ->
             set_team_from_totals_detailed(inst, a[1], a[2], a[3], a[4], a[5], a[6], a[7], a[8])

\* A new instance that is configured by that call only and has its strengths
\* calculated.
FreshlyCalculated(name, a) ==
    calculate_strengths(Configure(__init__, name, a).self).self

\* What the two analyses give on inst: the exception and the value of each.
AnalysisResults(inst) ==
    <<get_summary_info(inst).raised, get_summary_info(inst).returned,
      [a \in Margins |-> generate_market_analysis(inst, MarginPercent(a)).raised],
      [a \in Margins |-> generate_market_analysis(inst, MarginPercent(a)).returned]>>

\* C25: after a configuration call that returns and a calculate_strengths that
\* returns, the summary and the market table are those of a new instance given
\* the same configuration call: nothing of the earlier configurations, modes
\* or strengths of the instance shows in them.
C25_HistoryIndependent ==
    [][(/\ call \in ConfigurationCalls
        /\ raised = NoError
        /\ call' = "calculate_strengths"
        /\ raised' = NoError)
       => AnalysisResults(self') = AnalysisResults(FreshlyCalculated(call, args))]_vars

C25_Witness ==
    /\ call = "calculate_strengths"
    /\ raised = NoError
    /\ configurations = MaxConfigurations
    /\ ~self.using_detailed_averages
    /\ self.league_home_goals_for # None
    /\ self # FreshlyCalculated("set_team_averages",
                                <<self.home_avg_goals_for, self.home_avg_goals_against,
                                  self.away_avg_goals_for, self.away_avg_goals_against,
                                  self.league_avg_goals>>)
    /\ get_summary_info(self).raised = NoError

\* The values get_input_data reads are all there and all above zero.
ValidValues(section) ==
    LET positive(values) ==
            \A i \in 1..Len(values) :
                /\ values[i].ok
                /\ IF Len(values) = 3 THEN values[i].value > 0 ELSE IsPos(values[i].value)
    IN /\ \A i \in 1..Len(LeagueValues(section)) :
              LeagueValues(section)[i].ok /\ IsPos(LeagueValues(section)[i].value)
       /\ positive(HomeValues(section))
       /\ positive(AwayValues(section))

\* The per-game averages of a team as entered: the two averages, or the
\* goals scored and conceded over the games played.
PerGameAverages(values) ==
    IF Len(values) = 2 THEN <<values[1].value, values[2].value>>
    ELSE <<TrueDiv(values[2].value, values[1].value), TrueDiv(values[3].value, values[1].value)>>

\* C26: whichever way each team is entered (averages or totals), a click on
\* Calculate with valid values configures the calculator with the per-game
\* averages of both teams, shows no error and shows the results of that
\* configuration.
C26_EveryModeCombination ==
    (call = "calculate_probabilities" /\ ValidValues(input_section))
    => /\ message_box = NoMessage
       /\ <<self.home_avg_goals_for, self.home_avg_goals_against>>
              = PerGameAverages(HomeValues(input_section))
       /\ <<self.away_avg_goals_for, self.away_avg_goals_against>>
              = PerGameAverages(AwayValues(input_section))
       /\ results_table = update_results(get_summary_info(self).returned,
                                         generate_market_analysis(self, DefaultMargin).returned)

====
